---- MODULE Spec2Model ----
(***************************************************************************)
(* Indicator lifecycle engine of the threat-intelligence aggregator:       *)
(* IOC classification and normalisation (models/ioc_utils.rs), the         *)
(* indicator store (storage/mod.rs), the enrichment coordinator            *)
(* (enrichment/mod.rs) and the REST handlers that drive them (api/mod.rs). *)
(*                                                                         *)
(* Strings are sequences of one-character strings, so that trimming and    *)
(* case conversion are computed character by character.  Timestamps are    *)
(* integers read from one clock, in hours.                                 *)
(***************************************************************************)
EXTENDS Integers, Sequences, FiniteSets, TLC

(***************************************************************************)
(* Bounds of the model.                                                    *)
(***************************************************************************)
MaxTime == 2
MaxCalls == 3
NumTasks == 2
MaxProviders == 3

(***************************************************************************)
(* Characters and strings.                                                 *)
(***************************************************************************)
UpperChars == <<"A","B","C","D","E","F","G","H","I","J","K","L","M",
                "N","O","P","Q","R","S","T","U","V","W","X","Y","Z">>
LowerChars == <<"a","b","c","d","e","f","g","h","i","j","k","l","m",
                "n","o","p","q","r","s","t","u","v","w","x","y","z">>
DigitChars == <<"0","1","2","3","4","5","6","7","8","9">>

Range(s) == {s[i] : i \in DOMAIN s}

IndexIn(c, s) == CHOOSE i \in DOMAIN s : s[i] = c

char_to_lowercase(c) ==
    IF c \in Range(UpperChars) THEN LowerChars[IndexIn(c, UpperChars)] ELSE c

char_to_uppercase(c) ==
    IF c \in Range(LowerChars) THEN UpperChars[IndexIn(c, LowerChars)] ELSE c

to_lowercase(s) == [i \in DOMAIN s |-> char_to_lowercase(s[i])]

to_uppercase(s) == [i \in DOMAIN s |-> char_to_uppercase(s[i])]

is_whitespace(c) == c \in {" ", "\t", "\n", "\r"}

is_ascii_digit(c) == c \in Range(DigitChars)

is_ascii_hexdigit(c) ==
    \/ is_ascii_digit(c)
    \/ c \in {"a","b","c","d","e","f","A","B","C","D","E","F"}

is_alphanumeric(c) ==
    is_ascii_digit(c) \/ c \in Range(UpperChars) \/ c \in Range(LowerChars)

\* trim that strips at most one whitespace character from each end
trim_OneChar(s) ==
    LET lo == IF s # <<>> /\ is_whitespace(s[1]) THEN 2 ELSE 1
        hi == IF Len(s) >= lo /\ is_whitespace(s[Len(s)]) THEN Len(s) - 1 ELSE Len(s)
    IN  SubSeq(s, lo, hi)

\* str::trim: the slice between the first and the last non-whitespace character
trim(s) ==
    LET keep == {i \in DOMAIN s : ~is_whitespace(s[i])}
    IN  IF keep = {} THEN <<>>
        ELSE LET lo == CHOOSE i \in keep : \A j \in keep : i <= j
                 hi == CHOOSE i \in keep : \A j \in keep : j <= i
             IN  SubSeq(s, lo, hi)

starts_with(s, pat) ==
    Len(pat) <= Len(s) /\ SubSeq(s, 1, Len(pat)) = pat

contains(s, c) == c \in Range(s)

\* str::find for a pattern: the first position where pat occurs, 0 when absent
find(s, pat) ==
    LET hits == {i \in 1..(Len(s) - Len(pat) + 1) : SubSeq(s, i, i + Len(pat) - 1) = pat}
    IN  IF hits = {} THEN 0 ELSE CHOOSE i \in hits : \A j \in hits : i <= j

\* str::split on one character
RECURSIVE split(_, _)
split(s, c) ==
    LET i == find(s, <<c>>)
    IN  IF i = 0 THEN <<s>>
        ELSE <<SubSeq(s, 1, i - 1)>> \o split(SubSeq(s, i + 1, Len(s)), c)

DigitValue(c) == IndexIn(c, DigitChars) - 1

RECURSIVE DecimalValue(_)
DecimalValue(s) ==
    IF s = <<>> THEN 0
    ELSE 10 * DecimalValue(SubSeq(s, 1, Len(s) - 1)) + DigitValue(s[Len(s)])

\* one octet of Ipv4Addr::from_str: 1 to 3 digits, no leading zero, at most 255
IsOctet(s) ==
    /\ Len(s) \in 1..3
    /\ \A i \in DOMAIN s : is_ascii_digit(s[i])
    /\ (Len(s) > 1 => s[1] # "0")
    /\ DecimalValue(s) <= 255

parse_Ipv4Addr(s) ==
    LET parts == split(s, ".")
    IN  Len(parts) = 4 /\ \A i \in DOMAIN parts : IsOctet(parts[i])

IsHexGroup(s) ==
    Len(s) \in 1..4 /\ \A i \in DOMAIN s : is_ascii_hexdigit(s[i])

HexGroups(s) == IF s = <<>> THEN <<>> ELSE split(s, ":")

\* Ipv6Addr::from_str without the embedded-IPv4 tail: eight groups of 1 to 4
\* hex digits, or fewer groups around a single "::"
parse_Ipv6Addr(s) ==
    LET dbl == find(s, <<":", ":">>)
    IN  IF dbl = 0
        THEN LET parts == split(s, ":")
             IN  Len(parts) = 8 /\ \A i \in DOMAIN parts : IsHexGroup(parts[i])
        ELSE LET left  == HexGroups(SubSeq(s, 1, dbl - 1))
                 right == HexGroups(SubSeq(s, dbl + 2, Len(s)))
             IN  /\ Len(left) + Len(right) <= 7
                 /\ \A i \in DOMAIN left : IsHexGroup(left[i])
                 /\ \A i \in DOMAIN right : IsHexGroup(right[i])

(***************************************************************************)
(* models/mod.rs: the enums.                                               *)
(***************************************************************************)
IocType == {"ip", "domain", "url", "hash", "email", "cve"}

Severity == <<"unknown", "low", "medium", "high", "critical">>

Tlp == {"white", "green", "amber", "red"}

\* position of a severity in the declaration order of the enum
SeverityOrd(s) == IndexIn(s, Severity)

\* severity_from_score with the first bucket ending at 19
severity_from_score_ShortLow(score) ==
    IF score >= 0 /\ score <= 19 THEN "low"
    ELSE IF score >= 20 /\ score <= 50 THEN "medium"
    ELSE IF score >= 51 /\ score <= 80 THEN "high"
    ELSE IF score >= 81 /\ score <= 100 THEN "critical"
    ELSE "unknown"

\* impl From<i32> for Severity
severity_from_score(score) ==
    IF score >= 0 /\ score <= 20 THEN "low"
    ELSE IF score >= 21 /\ score <= 50 THEN "medium"
    ELSE IF score >= 51 /\ score <= 80 THEN "high"
    ELSE IF score >= 81 /\ score <= 100 THEN "critical"
    ELSE "unknown"

(***************************************************************************)
(* models/ioc_utils.rs                                                     *)
(***************************************************************************)
\* Option<T>: None is the empty sequence, Some(x) the one-element sequence
None == <<>>

Some(x) == <<x>>

unwrap_or(o, d) == IF o = None THEN d ELSE o[1]

\* detect_ioc_type with the Email rule tried before the Url rule
detect_ioc_type_EmailFirst(value) ==
    LET trimmed == trim(value)
        parts == split(trimmed, "/")
    IN  IF trimmed = <<>> THEN None
        ELSE IF starts_with(to_uppercase(trimmed), <<"C","V","E","-">>) THEN Some("cve")
        ELSE IF /\ Len(trimmed) \in {32, 40, 64}
                /\ \A i \in DOMAIN trimmed : is_ascii_hexdigit(trimmed[i])
             THEN Some("hash")
        ELSE IF contains(trimmed, "@") /\ contains(trimmed, ".") THEN Some("email")
        ELSE IF \/ starts_with(trimmed, <<"h","t","t","p",":","/","/">>)
                \/ starts_with(trimmed, <<"h","t","t","p","s",":","/","/">>)
             THEN Some("url")
        ELSE IF parse_Ipv4Addr(trimmed) THEN Some("ip")
        ELSE IF parse_Ipv6Addr(trimmed) THEN Some("ip")
        ELSE IF /\ contains(trimmed, "/")
                /\ Len(parts) = 2
                /\ (parse_Ipv4Addr(parts[1]) \/ parse_Ipv6Addr(parts[1]))
             THEN Some("ip")
        ELSE IF /\ contains(trimmed, ".")
                /\ ~contains(trimmed, " ")
                /\ ~contains(trimmed, "/")
                /\ ~contains(trimmed, "@")
                /\ \A i \in DOMAIN trimmed :
                       is_alphanumeric(trimmed[i]) \/ trimmed[i] \in {".", "-"}
             THEN Some("domain")
        ELSE None

detect_ioc_type(value) ==
    LET trimmed == trim(value)
        parts == split(trimmed, "/")
    IN  IF trimmed = <<>> THEN None
        ELSE IF starts_with(to_uppercase(trimmed), <<"C","V","E","-">>) THEN Some("cve")
        ELSE IF /\ Len(trimmed) \in {32, 40, 64}
                /\ \A i \in DOMAIN trimmed : is_ascii_hexdigit(trimmed[i])
             THEN Some("hash")
        ELSE IF \/ starts_with(trimmed, <<"h","t","t","p",":","/","/">>)
                \/ starts_with(trimmed, <<"h","t","t","p","s",":","/","/">>)
             THEN Some("url")
        ELSE IF contains(trimmed, "@") /\ contains(trimmed, ".") THEN Some("email")
        ELSE IF parse_Ipv4Addr(trimmed) THEN Some("ip")
        ELSE IF parse_Ipv6Addr(trimmed) THEN Some("ip")
        ELSE IF /\ contains(trimmed, "/")
                /\ Len(parts) = 2
                /\ (parse_Ipv4Addr(parts[1]) \/ parse_Ipv6Addr(parts[1]))
             THEN Some("ip")
        ELSE IF /\ contains(trimmed, ".")
                /\ ~contains(trimmed, " ")
                /\ ~contains(trimmed, "/")
                /\ ~contains(trimmed, "@")
                /\ \A i \in DOMAIN trimmed :
                       is_alphanumeric(trimmed[i]) \/ trimmed[i] \in {".", "-"}
             THEN Some("domain")
        ELSE None

normalize_ioc(value, ioc_type) ==
    LET trimmed == trim(value)
    IN  IF ioc_type = "url"
        THEN LET idx == find(trimmed, <<":","/","/">>)
             IN  IF idx # 0
                 THEN LET scheme == SubSeq(trimmed, 1, idx + 2)
                          rest == SubSeq(trimmed, idx + 3, Len(trimmed))
                          path_idx == find(rest, <<"/">>)
                      IN  IF path_idx # 0
                          THEN to_lowercase(scheme)
                                 \o to_lowercase(SubSeq(rest, 1, path_idx - 1))
                                 \o SubSeq(rest, path_idx, Len(rest))
                          ELSE to_lowercase(trimmed)
                 ELSE to_lowercase(trimmed)
        ELSE IF ioc_type = "cve" THEN to_uppercase(trimmed)
        ELSE to_lowercase(trimmed)

(***************************************************************************)
(* State.                                                                  *)
(***************************************************************************)
VARIABLES
    now,          \* the clock read by Utc::now() and by NOW()
    indicators,   \* table indicators: a set of rows
    sightings,    \* table sightings
    enrichments,  \* table enrichments
    nextId,       \* the next value of Uuid::new_v4()
    providers,    \* EnrichmentEngine.providers, in registration order
    serving,      \* the registry is built and the router is serving
    pc,           \* per task: the await point it is suspended at
    loc,          \* per task: the locals of the call it is running
    ret,          \* per task: what its last call returned
    calls,        \* number of calls started so far
    enrich,       \* per task: the frame of its enrich_all call and of the
                  \* loop that stores the results
    hist,         \* per indicator id: what the upserts of that row supplied
    bulk,         \* per task: the locals of its bulk_import call
    feeds         \* per collector: its source row and the calls of its fetch

vars == <<now, indicators, sightings, enrichments, nextId, providers, serving,
          pc, loc, ret, calls, enrich, hist, bulk, feeds>>

Tasks == 1..NumTasks

Max(a, b) == IF a >= b THEN a ELSE b

NoIndicator ==
    [id |-> 0, ioc_type |-> "none", value |-> <<>>, severity |-> "unknown",
     confidence |-> 0, threat_score |-> 0, tlp |-> "none", first_seen |-> 0,
     last_seen |-> 0, expiration |-> None, tags |-> <<>>, source_ids |-> <<>>,
     created_at |-> 0, updated_at |-> 0]

NoSighting ==
    [id |-> 0, indicator_id |-> 0, source |-> "none", observed_at |-> 0,
     created_at |-> 0]

NoRequest ==
    [value |-> <<>>, ioc_type |-> None, severity |-> None, confidence |-> None,
     tlp |-> None, tags |-> <<>>, expiration_days |-> None]

NoLocals ==
    [handler |-> "none", req |-> NoRequest, source_id |-> None,
     ioc_type |-> "none", normalized_value |-> <<>>, now |-> 0,
     expiration |-> None, sighting |-> NoSighting, search |-> None]

\* what a call answered; call is the number of the call for the handlers that
\* answer in the step they are entered in
NoReturn ==
    [handler |-> "none", ok |-> FALSE, status |-> 0, error |-> "none",
     indicator |-> NoIndicator, sighting |-> NoSighting, req |-> NoRequest,
     enrichments_added |-> 0, rows_affected |-> 0, call |-> 0,
     paginated |-> None]

\* the locals of enrich_all (indicator, position in the registry, results), the
\* providers it has invoked and what each returned, and the locals of the
\* caller's loop over the results
NoFrame ==
    [caller |-> "none", indicator |-> NoIndicator, idx |-> 0, invoked |-> <<>>,
     outcomes |-> <<>>, results |-> <<>>, returned |-> FALSE, store_idx |-> 0,
     expires_at |-> None, added |-> 0, done |-> FALSE]

\* the locals of bulk_import (the request, the position of the loop, the
\* counters and the errors), what became of each item so far, and the response
NoBulk ==
    [req |-> [indicators |-> <<>>, source |-> "none", tlp |-> None, tags |-> None],
     idx |-> 0, total |-> 0, created |-> 0, updated |-> 0, failed |-> 0,
     errors |-> <<>>, outcomes |-> <<>>, response |-> None]

\* FeedCollector::name of the three collectors
Collectors == {"alienvault_otx", "emerging_threats", "honeytrap"}

\* a collector whose source is enabled and which is configured, before any
\* fetch: IocSource.enabled and last_fetch, is_configured(), and the number
\* of calls of fetch()
NoFeed == [enabled |-> TRUE, configured |-> TRUE, last_fetch |-> None, fetches |-> 0]

(***************************************************************************)
(* Inputs.                                                                 *)
(***************************************************************************)
V_DomainPadded == <<" ","A","b",".","c"," ">>
V_DomainUpper == <<"A","B",".","C">>
V_DomainLower == <<"a","b",".","c">>
V_CveLower == <<"c","v","e","-","1">>
V_Unclassifiable == <<"x">>

\* the (request, source_id) pairs upsert_indicator is called with
UpsertCalls ==
    { [req |-> [NoRequest EXCEPT !.value = V_DomainPadded, !.tags = <<"t1">>],
       source_id |-> None],
      [req |-> [NoRequest EXCEPT !.value = V_DomainUpper,
                                 !.ioc_type = Some("domain"),
                                 !.severity = Some("high"),
                                 !.confidence = Some(30),
                                 !.tlp = Some("red"),
                                 !.tags = <<"t1", "t2">>,
                                 !.expiration_days = Some(1)],
       source_id |-> Some("s1")],
      [req |-> [NoRequest EXCEPT !.value = V_DomainLower,
                                 !.severity = Some("low"),
                                 !.confidence = Some(70),
                                 !.tlp = Some("green")],
       source_id |-> Some("s2")],
      [req |-> [NoRequest EXCEPT !.value = V_CveLower,
                                 !.severity = Some("critical"),
                                 !.tags = <<"t2">>],
       source_id |-> None],
      [req |-> [NoRequest EXCEPT !.value = V_Unclassifiable],
       source_id |-> None] }

\* the ids a caller passes: every stored indicator and one id that is not stored
KnownIds == {r.id : r \in indicators} \cup {0}

Scores == {10, 90}

SightingSources == {"manual"}

HoursPerDay == 24

(***************************************************************************)
(* storage/mod.rs: upsert_indicator                                        *)
(***************************************************************************)
\* ExcludedRow with the raw request value bound as $3
ExcludedRow_RawValue(id, req, source_id, ioc_type, normalized_value, ts, expiration) ==
    [id |-> id,
     ioc_type |-> ioc_type,
     value |-> req.value,
     severity |-> unwrap_or(req.severity, "unknown"),
     confidence |-> unwrap_or(req.confidence, 50),
     threat_score |-> unwrap_or(req.confidence, 50),
     tlp |-> unwrap_or(req.tlp, "amber"),
     first_seen |-> ts,
     last_seen |-> ts,
     expiration |-> expiration,
     tags |-> req.tags,
     source_ids |-> source_id,
     created_at |-> ts,
     updated_at |-> ts]

\* the VALUES row of the INSERT, from the bound parameters $1..$11
ExcludedRow(id, req, source_id, ioc_type, normalized_value, ts, expiration) ==
    [id |-> id,
     ioc_type |-> ioc_type,
     value |-> normalized_value,
     severity |-> unwrap_or(req.severity, "unknown"),
     confidence |-> unwrap_or(req.confidence, 50),
     threat_score |-> unwrap_or(req.confidence, 50),
     tlp |-> unwrap_or(req.tlp, "amber"),
     first_seen |-> ts,
     last_seen |-> ts,
     expiration |-> expiration,
     tags |-> req.tags,
     source_ids |-> source_id,
     created_at |-> ts,
     updated_at |-> ts]

\* ON CONFLICT (ioc_type, value): the rows the unique index finds
ConflictRows(table, excluded) ==
    {r \in table : r.ioc_type = excluded.ioc_type /\ r.value = excluded.value}

\* OnConflictUpdate with severity = EXCLUDED.severity
OnConflictUpdate_SeverityOverwrite(existing, excluded) ==
    [existing EXCEPT
        !.severity = excluded.severity,
        !.confidence = Max(existing.confidence, excluded.confidence),
        !.last_seen = excluded.last_seen,
        !.tags = existing.tags \o excluded.tags,
        !.source_ids = existing.source_ids \o excluded.source_ids,
        !.updated_at = excluded.updated_at]

\* OnConflictUpdate with tlp = EXCLUDED.tlp added to the SET list
OnConflictUpdate_SetsTlp(existing, excluded) ==
    [existing EXCEPT
        !.severity = IF SeverityOrd(excluded.severity) > SeverityOrd(existing.severity)
                     THEN excluded.severity ELSE existing.severity,
        !.confidence = Max(existing.confidence, excluded.confidence),
        !.tlp = excluded.tlp,
        !.last_seen = excluded.last_seen,
        !.tags = existing.tags \o excluded.tags,
        !.source_ids = existing.source_ids \o excluded.source_ids,
        !.updated_at = excluded.updated_at]

\* DO UPDATE SET ...
OnConflictUpdate(existing, excluded) ==
    [existing EXCEPT
        !.severity = IF SeverityOrd(excluded.severity) > SeverityOrd(existing.severity)
                     THEN excluded.severity ELSE existing.severity,
        !.confidence = Max(existing.confidence, excluded.confidence),
        !.last_seen = excluded.last_seen,
        !.tags = existing.tags \o excluded.tags,
        !.source_ids = existing.source_ids \o excluded.source_ids,
        !.updated_at = excluded.updated_at]

\* the whole statement: the table after it and the row of RETURNING *
UpsertStatement(table, excluded) ==
    LET hit == ConflictRows(table, excluded)
    IN  IF hit = {}
        THEN [table |-> table \cup {excluded}, row |-> excluded, inserted |-> TRUE]
        ELSE LET existing == CHOOSE r \in hit : TRUE
                 merged == OnConflictUpdate(existing, excluded)
             IN  [table |-> (table \ {existing}) \cup {merged},
                  row |-> merged, inserted |-> FALSE]

\* what the upserts of one row have supplied so far
HistInsert(row) ==
    [severity |-> row.severity, confidence |-> row.confidence,
     tags |-> Range(row.tags), source_ids |-> Range(row.source_ids),
     tag_count |-> Len(row.tags), source_count |-> Len(row.source_ids),
     upserts |-> 1, rescored |-> FALSE]

HistMerge(h, excluded) ==
    [h EXCEPT
        !.severity = IF SeverityOrd(excluded.severity) > SeverityOrd(@)
                     THEN excluded.severity ELSE @,
        !.confidence = Max(@, excluded.confidence),
        !.tags = @ \cup Range(excluded.tags),
        !.source_ids = @ \cup Range(excluded.source_ids),
        !.tag_count = @ + Len(excluded.tags),
        !.source_count = @ + Len(excluded.source_ids),
        !.upserts = @ + 1]

\* the status a handler's map_err gives an error of the call it makes
ErrorStatus(handler) ==
    IF handler = "create_indicator" THEN 400
    ELSE IF handler \in {"enrich_indicator", "add_sighting"} THEN 500
    ELSE 0

Finish(t, r) ==
    /\ pc' = [pc EXCEPT ![t] = "idle"]
    /\ loc' = [loc EXCEPT ![t] = NoLocals]
    /\ ret' = [ret EXCEPT ![t] = r]

\* lines 52-57: resolve the type, normalise, read the clock
upsert_indicator_begin(t, handler, req, source_id) ==
    LET ioc_type == IF req.ioc_type # None THEN req.ioc_type
                    ELSE detect_ioc_type(req.value)
    IN  IF ioc_type = None
        THEN Finish(t, [NoReturn EXCEPT !.handler = handler, !.req = req,
                                        !.status = ErrorStatus(handler),
                                        !.error = "Could not detect IOC type"])
        ELSE /\ pc' = [pc EXCEPT ![t] = "upsert_stmt"]
             /\ loc' = [loc EXCEPT ![t] =
                    [NoLocals EXCEPT
                        !.handler = handler,
                        !.req = req,
                        !.source_id = source_id,
                        !.ioc_type = ioc_type[1],
                        !.normalized_value = normalize_ioc(req.value, ioc_type[1]),
                        !.now = now,
                        !.expiration =
                            IF req.expiration_days = None THEN None
                            ELSE Some(now + HoursPerDay * req.expiration_days[1])]]
             /\ UNCHANGED ret

\* the row the suspended statement of task t carries
PendingExcluded(t) ==
    ExcludedRow(nextId, loc[t].req, loc[t].source_id, loc[t].ioc_type,
                loc[t].normalized_value, loc[t].now, loc[t].expiration)

UpsertBegin(t) ==
    /\ serving
    /\ pc[t] = "idle"
    /\ calls < MaxCalls
    /\ calls' = calls + 1
    /\ \E c \in UpsertCalls : upsert_indicator_begin(t, "upsert_indicator", c.req, c.source_id)
    /\ UNCHANGED <<feeds, bulk, now, enrich, indicators, sightings, enrichments, nextId, providers,
                   serving, hist>>

\* lines 59-91: the statement runs and the row comes back
UpsertExec(t) ==
    /\ pc[t] = "upsert_stmt"
    /\ loc[t].handler = "upsert_indicator"
    /\ LET res == UpsertStatement(indicators, PendingExcluded(t))
       IN  /\ indicators' = res.table
           /\ nextId' = IF res.inserted THEN nextId + 1 ELSE nextId
           /\ hist' = IF res.inserted
                      THEN [i \in DOMAIN hist \cup {res.row.id} |->
                               IF i = res.row.id THEN HistInsert(res.row) ELSE hist[i]]
                      ELSE [hist EXCEPT ![res.row.id] = HistMerge(@, PendingExcluded(t))]
           /\ Finish(t, [NoReturn EXCEPT !.handler = "upsert_indicator", !.ok = TRUE,
                                         !.req = loc[t].req, !.indicator = res.row])
    /\ UNCHANGED <<feeds, bulk, now, enrich, sightings, enrichments, providers, serving, calls>>

\* .context("Failed to upsert indicator")?: the database refuses the statement
UpsertFail(t) ==
    /\ pc[t] = "upsert_stmt"
    /\ loc[t].handler = "upsert_indicator"
    /\ Finish(t, [NoReturn EXCEPT !.handler = "upsert_indicator",
                                  !.req = loc[t].req,
                                  !.error = "Failed to upsert indicator"])
    /\ UNCHANGED <<feeds, bulk, now, enrich, indicators, sightings, enrichments, nextId, providers,
                   serving, calls, hist>>

(***************************************************************************)
(* storage/mod.rs: update_threat_score                                     *)
(***************************************************************************)
UpdateThreatScoreStatement(table, id, score, ts) ==
    {IF r.id = id
     THEN [r EXCEPT !.threat_score = score,
                    !.severity = severity_from_score(score),
                    !.updated_at = ts]
     ELSE r : r \in table}

UpdateThreatScore(t) ==
    /\ serving
    /\ pc[t] = "idle"
    /\ calls < MaxCalls
    /\ calls' = calls + 1
    /\ \E id \in KnownIds, score \in Scores :
          /\ indicators' = UpdateThreatScoreStatement(indicators, id, score, now)
          /\ hist' = [i \in DOMAIN hist |->
                         IF i = id THEN [hist[i] EXCEPT !.rescored = TRUE] ELSE hist[i]]
          /\ Finish(t, [NoReturn EXCEPT !.handler = "update_threat_score", !.ok = TRUE])
    /\ UNCHANGED <<feeds, bulk, now, enrich, sightings, enrichments, nextId, providers,
                   serving>>

(***************************************************************************)
(* storage/mod.rs: add_sighting                                            *)
(***************************************************************************)
\* sightings.indicator_id references indicators(id)
SightingForeignKey(table, id) == \E r \in table : r.id = id

\* lines 276-289: INSERT INTO sightings ... NOW(), NOW() RETURNING *
AddSightingInsert(t) ==
    /\ serving
    /\ pc[t] = "idle"
    /\ calls < MaxCalls
    /\ calls' = calls + 1
    /\ \E id \in KnownIds, source \in SightingSources :
          IF SightingForeignKey(indicators, id)
          THEN LET s == [id |-> nextId, indicator_id |-> id, source |-> source,
                         observed_at |-> now, created_at |-> now]
               IN  /\ sightings' = sightings \cup {s}
                   /\ nextId' = nextId + 1
                   /\ pc' = [pc EXCEPT ![t] = "sighting_update"]
                   /\ loc' = [loc EXCEPT ![t] =
                                 [NoLocals EXCEPT !.handler = "add_sighting",
                                                  !.sighting = s]]
                   /\ UNCHANGED ret
          ELSE /\ Finish(t, [NoReturn EXCEPT !.handler = "add_sighting",
                                             !.status = ErrorStatus("add_sighting"),
                                             !.error = "Failed to add sighting"])
               /\ UNCHANGED <<sightings, nextId>>
    /\ UNCHANGED <<feeds, bulk, now, enrich, indicators, enrichments, providers, serving, hist>>

BumpLastSeenStatement(table, id, ts) ==
    {IF r.id = id THEN [r EXCEPT !.last_seen = ts] ELSE r : r \in table}

\* lines 291-297: UPDATE indicators SET last_seen = NOW(), then Ok(sighting)
AddSightingUpdate(t) ==
    /\ pc[t] = "sighting_update"
    /\ indicators' = BumpLastSeenStatement(indicators, loc[t].sighting.indicator_id, now)
    /\ Finish(t, [NoReturn EXCEPT !.handler = "add_sighting", !.ok = TRUE,
                                  !.sighting = loc[t].sighting])
    /\ UNCHANGED <<feeds, bulk, now, enrich, sightings, enrichments, nextId, providers, serving,
                   calls, hist>>

(***************************************************************************)
(* The clock and the store-level specification.                            *)
(***************************************************************************)
Tick ==
    /\ now < MaxTime
    /\ now' = now + 1
    /\ UNCHANGED <<feeds, bulk, enrich, indicators, sightings, enrichments, nextId,
                   providers, serving, pc, loc, ret, calls, hist>>

InitStore ==
    /\ now = 0
    /\ indicators = {}
    /\ sightings = {}
    /\ enrichments = {}
    /\ nextId = 1
    /\ pc = [t \in Tasks |-> "idle"]
    /\ loc = [t \in Tasks |-> NoLocals]
    /\ ret = [t \in Tasks |-> NoReturn]
    /\ calls = 0
    /\ enrich = [t \in Tasks |-> NoFrame]
    /\ hist = << >>
    /\ bulk = [t \in Tasks |-> NoBulk]
    /\ feeds = [c \in Collectors |-> NoFeed]

Init ==
    /\ InitStore
    /\ providers = <<>>
    /\ serving = TRUE

Next ==
    \/ Tick
    \/ \E t \in Tasks : UpsertBegin(t)
    \/ \E t \in Tasks : UpsertExec(t)
    \/ \E t \in Tasks : UpsertFail(t)
    \/ \E t \in Tasks : UpdateThreatScore(t)
    \/ \E t \in Tasks : AddSightingInsert(t)
    \/ \E t \in Tasks : AddSightingUpdate(t)

Spec == Init /\ [][Next]_vars

(***************************************************************************)
(* Properties of the store.                                                *)
(***************************************************************************)
RowsOfKey(ioc_type, value) ==
    {r \in indicators : r.ioc_type = ioc_type /\ r.value = value}

\* the sightings whose add_sighting call has returned
ReturnedSightings ==
    {s \in sightings :
        \A t \in Tasks : ~(pc[t] = "sighting_update" /\ loc[t].sighting = s)}

C1_Accumulated ==
    \A r \in indicators :
        /\ r.id \in DOMAIN hist
        /\ r.confidence = hist[r.id].confidence
        /\ Range(r.tags) = hist[r.id].tags
        /\ Range(r.source_ids) = hist[r.id].source_ids
        /\ (~hist[r.id].rescored => r.severity = hist[r.id].severity)

C1_Monotone ==
    \A r \in indicators : \A r2 \in indicators' :
        r2.id = r.id =>
            /\ r2.confidence >= r.confidence
            /\ (hist'[r.id].upserts > hist[r.id].upserts
                  => SeverityOrd(r2.severity) >= SeverityOrd(r.severity))

\* C1: over the upserts of one (ioc_type, normalized value), in any
\* interleaving, severity and confidence of the row never decrease, and the row
\* holds the maximum of the supplied severities (Unknown when absent), the
\* maximum of the supplied confidences (50 when absent), the union of the
\* request tags and the union of the supplied source_ids.
C1_UpsertMergeIsMonotoneUnion == []C1_Accumulated /\ [][C1_Monotone]_vars

C1_Witness ==
    \E r \in indicators :
        /\ r.id \in DOMAIN hist
        /\ hist[r.id].upserts = 3
        /\ ~hist[r.id].rescored
        /\ r.severity = "high"
        /\ r.confidence = 70
        /\ Range(r.tags) = {"t1", "t2"}
        /\ Range(r.source_ids) = {"s1", "s2"}

\* C2: in every reachable state, also when upserts of case and whitespace
\* variants of one value race on a row that does not exist yet, there is at most
\* one row per (ioc_type, value), every stored value equals its own
\* normalisation, and the row holds the contribution of every executed upsert
\* exactly once, as after executing them one after the other.
C2_OneCanonicalRowPerKey ==
    /\ \A r1 \in indicators : \A r2 \in indicators :
          (r1.ioc_type = r2.ioc_type /\ r1.value = r2.value) => r1 = r2
    /\ \A r1 \in indicators : \A r2 \in indicators : r1.id = r2.id => r1 = r2
    /\ \A r \in indicators :
          /\ r.value = normalize_ioc(r.value, r.ioc_type)
          /\ r.id \in DOMAIN hist
          /\ Len(r.tags) = hist[r.id].tag_count
          /\ Len(r.source_ids) = hist[r.id].source_count

\* two upserts of different spellings overlapped: the one that read the clock
\* before the row was created merged into it afterwards
C2_Witness ==
    \E t \in Tasks : \E u \in Tasks \ {t} :
        /\ ret[t].handler = "upsert_indicator" /\ ret[t].ok
        /\ ret[u].handler = "upsert_indicator" /\ ret[u].ok
        /\ ret[t].indicator.id = ret[u].indicator.id
        /\ ret[t].req.value # ret[u].req.value
        /\ ret[t].indicator.last_seen < ret[t].indicator.created_at
        /\ Cardinality(RowsOfKey(ret[t].indicator.ioc_type, ret[t].indicator.value)) = 1
        /\ hist[ret[t].indicator.id].upserts = 2

\* C3: no reader ever sees a stored sighting whose observed_at is greater than
\* the last_seen of its indicator, during or after an add_sighting call.
C3_NoSightingAheadOfLastSeen ==
    \A s \in sightings : \A r \in indicators :
        r.id = s.indicator_id => s.observed_at <= r.last_seen

\* C4: once add_sighting has returned sighting s of indicator i, i has
\* last_seen >= s.observed_at in that state and in every later state in which i
\* exists.
C4_LastSeenCoversReturnedSightings ==
    \A s \in ReturnedSightings : \A r \in indicators :
        r.id = s.indicator_id => r.last_seen >= s.observed_at

\* C5: every indicator row has first_seen <= last_seen <= updated_at, and a
\* row that has only been inserted has created_at = first_seen = last_seen =
\* updated_at.
C5_TimestampOrder ==
    \A r \in indicators :
        /\ r.first_seen <= r.last_seen
        /\ r.last_seen <= r.updated_at
        /\ r.created_at = r.first_seen

\* the step in which the upsert statement of task t returns a row
UpsertReturns(t) ==
    /\ pc[t] = "upsert_stmt"
    /\ pc'[t] # "upsert_stmt"
    /\ ret'[t].ok

C6_MergeFrame ==
    \A t \in Tasks :
        UpsertReturns(t) =>
            \A old \in RowsOfKey(loc[t].ioc_type, loc[t].normalized_value) :
                LET new == ret'[t].indicator
                IN  /\ new \in indicators'
                    /\ indicators' = (indicators \ {old}) \cup {new}
                    /\ new.id = old.id
                    /\ new.ioc_type = old.ioc_type
                    /\ new.value = old.value
                    /\ new.threat_score = old.threat_score
                    /\ new.tlp = old.tlp
                    /\ new.expiration = old.expiration
                    /\ new.first_seen = old.first_seen
                    /\ new.created_at = old.created_at

\* C6: an upsert that hits an existing (ioc_type, value) row leaves id,
\* threat_score, tlp, expiration, first_seen and created_at of the row as they
\* were, whatever the request carries, leaves every other row alone, and
\* returns the row as it is after the merge.
C6_UpsertOnExistingPreserves == [][C6_MergeFrame]_vars

\* a merge has returned whose request carried another tlp and an expiration
C6_Witness ==
    \E t \in Tasks :
        /\ ret[t].handler = "upsert_indicator" /\ ret[t].ok
        /\ ret[t].indicator \in indicators
        /\ hist[ret[t].indicator.id].upserts >= 2
        /\ ret[t].req.tlp = Some("red")
        /\ ret[t].indicator.tlp = "amber"
        /\ ret[t].req.expiration_days # None
        /\ ret[t].indicator.expiration = None
        /\ ret[t].req.confidence = Some(30)
        /\ ret[t].indicator.threat_score = 50

(***************************************************************************)
(* enrichment/*.rs: the providers.                                         *)
(***************************************************************************)
ProviderNames == {"maxmind", "dns", "whois", "abuseipdb", "virustotal"}

enrichment_type(p) ==
    IF p = "maxmind" THEN "geoip"
    ELSE IF p = "dns" THEN "dns"
    ELSE IF p = "whois" THEN "whois"
    ELSE "reputation"

supports(p, ioc_type) ==
    IF p = "maxmind" THEN ioc_type = "ip"
    ELSE IF p = "dns" THEN ioc_type \in {"domain", "ip"}
    ELSE IF p = "whois" THEN ioc_type = "domain"
    ELSE IF p = "abuseipdb" THEN ioc_type = "ip"
    ELSE ioc_type \in {"ip", "domain", "hash", "url"}

ttl_hours(p) ==
    IF p = "maxmind" THEN 168
    ELSE IF p = "dns" THEN 24
    ELSE IF p = "whois" THEN 168
    ELSE 12

\* what one call of provider.enrich(indicator) can come back with
Documents == {"d1"}

Outcomes ==
    {[kind |-> "some", data |-> d] : d \in Documents}
        \cup {[kind |-> "none", data |-> "null"], [kind |-> "err", data |-> "null"]}

(***************************************************************************)
(* enrichment/mod.rs: EnrichmentEngine                                     *)
(***************************************************************************)
\* add_provider, called while the registry is being built
AddProvider(p) ==
    /\ ~serving
    /\ Len(providers) < MaxProviders
    /\ p \notin Range(providers)
    /\ providers' = Append(providers, p)
    /\ UNCHANGED <<feeds, bulk, now, enrich, indicators, sightings, enrichments, nextId,
                   serving, pc, loc, ret, calls, hist>>

\* main.rs lines 94-123: the providers main registers, in the order it does so
MainProviders == <<"maxmind", "dns", "abuseipdb", "virustotal">>

\* one of main's conditional add_provider calls: GeoIP and DNS when their
\* constructor succeeds, AbuseIPDB and VirusTotal when their key is configured
MainAddProvider(p) ==
    /\ ~serving
    /\ p \in Range(MainProviders)
    /\ \A q \in Range(providers) : IndexIn(q, MainProviders) < IndexIn(p, MainProviders)
    /\ providers' = Append(providers, p)
    /\ UNCHANGED <<feeds, bulk, now, enrich, indicators, sightings, enrichments, nextId,
                   serving, pc, loc, ret, calls, hist>>

\* the registry goes into the shared state and the server starts
StartServing ==
    /\ ~serving
    /\ serving' = TRUE
    /\ UNCHANGED <<feeds, bulk, now, enrich, indicators, sightings, enrichments, nextId,
                   providers, pc, loc, ret, calls, hist>>

\* NextSupported without the `continue` of lines 55-57
NextSupported_NoSkip(registry, from, ioc_type) ==
    IF from <= Len(registry) THEN from ELSE 0

\* lines 54-57: the first position at or after `from` that is not skipped,
\* 0 when the loop runs off the end of the registry
NextSupported(registry, from, ioc_type) ==
    LET rest == {j \in from..Len(registry) : supports(registry[j], ioc_type)}
    IN  IF rest = {} THEN 0 ELSE CHOOSE j \in rest : \A k \in rest : j <= k

\* MatchOutcome where the Err arm empties the results
MatchOutcome_ErrClears(results, p, outcome) ==
    IF outcome.kind = "some"
    THEN Append(results, <<enrichment_type(p), p, outcome.data, ttl_hours(p)>>)
    ELSE IF outcome.kind = "err" THEN <<>>
    ELSE results

\* MatchOutcome where the Ok(None) arm pushes a tuple too
MatchOutcome_NonePushes(results, p, outcome) ==
    IF outcome.kind \in {"some", "none"}
    THEN Append(results, <<enrichment_type(p), p, outcome.data, ttl_hours(p)>>)
    ELSE results

\* lines 59-83: the match on what provider.enrich returned
MatchOutcome(results, p, outcome) ==
    IF outcome.kind = "some"
    THEN Append(results, <<enrichment_type(p), p, outcome.data, ttl_hours(p)>>)
    ELSE results

\* the loop goes on from position `from`: it is suspended in the enrich call of
\* the next provider it does not skip, or it has left the loop and returned
Advance(f, from) ==
    LET j == NextSupported(providers, from, f.indicator.ioc_type)
    IN  IF j # 0
        THEN [f EXCEPT !.idx = j, !.invoked = Append(@, providers[j])]
        ELSE [f EXCEPT !.idx = 0, !.returned = TRUE]

\* the caller's loop over the results is at position k: add_enrichment is called
\* for results[k] (its expires_at read from the clock at the call), or the loop
\* is over
StoreLoopAt(f, k) ==
    IF k <= Len(f.results)
    THEN [f EXCEPT !.store_idx = k, !.expires_at = Some(now + f.results[k][4])]
    ELSE [f EXCEPT !.store_idx = 0, !.expires_at = None, !.done = TRUE]

\* RunOn where the caller of the spawned pass answers when the pass is over
RunOn_AnswersAfterPass(t, f, r) ==
    LET g == IF f.returned /\ f.caller = "enrich_all" THEN [f EXCEPT !.done = TRUE]
             ELSE IF f.returned /\ f.store_idx = 0 /\ ~f.done THEN StoreLoopAt(f, 1)
             ELSE f
    IN  /\ enrich' = [enrich EXCEPT ![t] = g]
        /\ pc' = [pc EXCEPT ![t] = IF ~g.returned THEN "enrich_await"
                                   ELSE IF g.done THEN "idle"
                                   ELSE "add_enrichment"]
        /\ loc' = [loc EXCEPT ![t] = NoLocals]
        /\ ret' = [ret EXCEPT ![t] =
                      IF g.done /\ g.caller = "enrich_indicator"
                      THEN [NoReturn EXCEPT !.handler = "enrich_indicator",
                                            !.ok = TRUE, !.status = 200,
                                            !.enrichments_added = g.added]
                      ELSE IF g.done /\ g.caller = "create_indicator"
                      THEN [r EXCEPT !.enrichments_added = g.added]
                      ELSE r]

\* task t runs on with frame f until its next await; r is what ret[t] holds
\* unless the frame's caller answers in this stretch
RunOn(t, f, r) ==
    LET g == IF f.returned /\ f.caller = "enrich_all" THEN [f EXCEPT !.done = TRUE]
             ELSE IF f.returned /\ f.store_idx = 0 /\ ~f.done THEN StoreLoopAt(f, 1)
             ELSE f
    IN  /\ enrich' = [enrich EXCEPT ![t] = g]
        /\ pc' = [pc EXCEPT ![t] = IF ~g.returned THEN "enrich_await"
                                   ELSE IF g.done THEN "idle"
                                   ELSE "add_enrichment"]
        /\ loc' = [loc EXCEPT ![t] = NoLocals]
        /\ ret' = [ret EXCEPT ![t] =
                      IF g.done /\ g.caller = "enrich_indicator"
                      THEN [NoReturn EXCEPT !.handler = "enrich_indicator",
                                            !.ok = TRUE, !.status = 200,
                                            !.enrichments_added = g.added]
                      ELSE r]

\* enrich_all is entered with indicator ind
EnterEnrichAll(caller, ind) ==
    Advance([NoFrame EXCEPT !.caller = caller, !.indicator = ind], 1)

\* line 59: provider.enrich(indicator).await completes with outcome o
ProviderReturns(t) ==
    /\ pc[t] = "enrich_await"
    /\ \E o \in Outcomes :
          LET f == enrich[t]
              p == providers[f.idx]
              f2 == [f EXCEPT !.results = MatchOutcome(@, p, o),
                              !.outcomes = Append(@, o)]
          IN  RunOn(t, Advance(f2, f.idx + 1), ret[t])
    /\ UNCHANGED <<feeds, bulk, now, indicators, sightings, enrichments, nextId, providers,
                   serving, calls, hist>>

\* the indicators enrich_all is called with: one of each type that some, all
\* or none of the providers support
EngineIndicators ==
    {[NoIndicator EXCEPT !.id = 1, !.ioc_type = ty] : ty \in {"ip", "domain", "cve"}}

\* enrich_all(&indicator) called on the engine
EnrichAllCall(t) ==
    /\ serving
    /\ pc[t] = "idle"
    /\ calls < MaxCalls
    /\ calls' = calls + 1
    /\ \E ind \in EngineIndicators : RunOn(t, EnterEnrichAll("enrich_all", ind), ret[t])
    /\ UNCHANGED <<feeds, bulk, now, indicators, sightings, enrichments, nextId, providers,
                   serving, hist>>

InitEngine ==
    /\ now = 0
    /\ indicators = {}
    /\ sightings = {}
    /\ enrichments = {}
    /\ nextId = 1
    /\ pc = [t \in Tasks |-> "idle"]
    /\ loc = [t \in Tasks |-> NoLocals]
    /\ ret = [t \in Tasks |-> NoReturn]
    /\ calls = 0
    /\ enrich = [t \in Tasks |-> NoFrame]
    /\ hist = << >>
    /\ bulk = [t \in Tasks |-> NoBulk]
    /\ feeds = [c \in Collectors |-> NoFeed]
    /\ providers = <<>>
    /\ serving = FALSE

NextEngine ==
    \/ \E p \in ProviderNames : AddProvider(p)
    \/ StartServing
    \/ \E t \in Tasks : EnrichAllCall(t)
    \/ \E t \in Tasks : ProviderReturns(t)

SpecEngine == InitEngine /\ [][NextEngine]_vars

(***************************************************************************)
(* storage/mod.rs: add_enrichment                                          *)
(***************************************************************************)
\* AddEnrichmentStatement with ON CONFLICT DO NOTHING
AddEnrichmentStatement_DoNothing(table, id, indicator_id, etype, provider, data, ts, expires_at) ==
    LET hit == {e \in table : /\ e.indicator_id = indicator_id
                              /\ e.enrichment_type = etype
                              /\ e.provider = provider}
    IN  IF hit = {}
        THEN table \cup {[id |-> id, indicator_id |-> indicator_id,
                          enrichment_type |-> etype, provider |-> provider,
                          data |-> data, fetched_at |-> ts,
                          expires_at |-> expires_at]}
        ELSE table

\* lines 230-249: INSERT ... ON CONFLICT (indicator_id, enrichment_type,
\* provider) DO UPDATE SET data, fetched_at, expires_at
AddEnrichmentStatement(table, id, indicator_id, etype, provider, data, ts, expires_at) ==
    LET hit == {e \in table : /\ e.indicator_id = indicator_id
                              /\ e.enrichment_type = etype
                              /\ e.provider = provider}
    IN  IF hit = {}
        THEN table \cup {[id |-> id, indicator_id |-> indicator_id,
                          enrichment_type |-> etype, provider |-> provider,
                          data |-> data, fetched_at |-> ts,
                          expires_at |-> expires_at]}
        ELSE {IF e \in hit
              THEN [e EXCEPT !.data = data, !.fetched_at = ts,
                             !.expires_at = expires_at]
              ELSE e : e \in table}

\* api/mod.rs lines 106-113 and 225-233: one add_enrichment of the loop succeeds
AddEnrichment(t) ==
    /\ pc[t] = "add_enrichment"
    /\ LET f == enrich[t]
           tuple == f.results[f.store_idx]
           fresh == \A e \in enrichments :
                       ~(/\ e.indicator_id = f.indicator.id
                         /\ e.enrichment_type = tuple[1]
                         /\ e.provider = tuple[2])
       IN  /\ enrichments' = AddEnrichmentStatement(enrichments, nextId,
                                 f.indicator.id, tuple[1], tuple[2], tuple[3],
                                 now, f.expires_at)
           /\ nextId' = IF fresh THEN nextId + 1 ELSE nextId
           /\ RunOn(t, StoreLoopAt([f EXCEPT !.added = @ + 1], f.store_idx + 1), ret[t])
    /\ UNCHANGED <<feeds, bulk, now, indicators, sightings, providers, serving, calls, hist>>

\* the statement fails: the task logs it, the handler does not count it
AddEnrichmentFail(t) ==
    /\ pc[t] = "add_enrichment"
    /\ RunOn(t, StoreLoopAt(enrich[t], enrich[t].store_idx + 1), ret[t])
    /\ UNCHANGED <<feeds, bulk, now, indicators, sightings, enrichments, nextId, providers,
                   serving, calls, hist>>

(***************************************************************************)
(* api/mod.rs: create_indicator and enrich_indicator                       *)
(***************************************************************************)
\* the bodies POST /api/v1/indicators is called with: a domain (DNS and
\* VirusTotal support it, GeoIP and AbuseIPDB do not), a CVE (no provider
\* supports it) and a value that cannot be classified
CreateRequests ==
    { [NoRequest EXCEPT !.value = V_DomainPadded, !.tags = <<"t1">>],
      [NoRequest EXCEPT !.value = V_CveLower, !.severity = Some("critical")],
      [NoRequest EXCEPT !.value = V_Unclassifiable] }

\* lines 87-90: upsert_indicator(&req, None) is called
CreateIndicatorBegin(t) ==
    /\ serving
    /\ pc[t] = "idle"
    /\ calls < MaxCalls
    /\ calls' = calls + 1
    /\ \E req \in CreateRequests : upsert_indicator_begin(t, "create_indicator", req, None)
    /\ UNCHANGED <<feeds, bulk, now, enrich, indicators, sightings, enrichments, nextId,
                   providers, serving, hist>>

\* lines 90-116: the upsert returns the row, the enrichment task is spawned
\* and 201 is answered with the row
CreateIndicatorExec(t) ==
    /\ pc[t] = "upsert_stmt"
    /\ loc[t].handler = "create_indicator"
    /\ LET res == UpsertStatement(indicators, PendingExcluded(t))
       IN  /\ indicators' = res.table
           /\ nextId' = IF res.inserted THEN nextId + 1 ELSE nextId
           /\ hist' = IF res.inserted
                      THEN [i \in DOMAIN hist \cup {res.row.id} |->
                               IF i = res.row.id THEN HistInsert(res.row) ELSE hist[i]]
                      ELSE [hist EXCEPT ![res.row.id] = HistMerge(@, PendingExcluded(t))]
           /\ RunOn(t, EnterEnrichAll("create_indicator", res.row),
                    [NoReturn EXCEPT !.handler = "create_indicator", !.ok = TRUE,
                                     !.status = 201, !.req = loc[t].req,
                                     !.indicator = res.row])
    /\ UNCHANGED <<feeds, bulk, now, sightings, enrichments, providers, serving, calls>>

\* lines 91-97: the upsert fails in the database and map_err answers
CreateIndicatorFail(t) ==
    /\ pc[t] = "upsert_stmt"
    /\ loc[t].handler = "create_indicator"
    /\ Finish(t, [NoReturn EXCEPT !.handler = "create_indicator",
                                  !.status = ErrorStatus("create_indicator"),
                                  !.req = loc[t].req,
                                  !.error = "Failed to upsert indicator"])
    /\ UNCHANGED <<feeds, bulk, now, enrich, indicators, sightings, enrichments, nextId,
                   providers, serving, calls, hist>>

\* lines 205-222: get_indicator(id), 404 when absent, else enrich_all
EnrichIndicator(t) ==
    /\ serving
    /\ pc[t] = "idle"
    /\ calls < MaxCalls
    /\ calls' = calls + 1
    /\ \E id \in KnownIds :
          LET found == {r \in indicators : r.id = id}
          IN  IF found = {}
              THEN /\ Finish(t, [NoReturn EXCEPT !.handler = "enrich_indicator",
                                                 !.status = 404,
                                                 !.error = "Indicator not found"])
                   /\ UNCHANGED enrich
              ELSE RunOn(t, EnterEnrichAll("enrich_indicator", CHOOSE r \in found : TRUE),
                         ret[t])
    /\ UNCHANGED <<feeds, bulk, now, indicators, sightings, enrichments, nextId, providers,
                   serving, hist>>

InitApi ==
    /\ InitStore
    /\ providers = <<>>
    /\ serving = FALSE

NextApi ==
    \/ \E p \in ProviderNames : MainAddProvider(p)
    \/ StartServing
    \/ \E t \in Tasks : CreateIndicatorBegin(t)
    \/ \E t \in Tasks : CreateIndicatorExec(t)
    \/ \E t \in Tasks : CreateIndicatorFail(t)
    \/ \E t \in Tasks : EnrichIndicator(t)
    \/ \E t \in Tasks : ProviderReturns(t)
    \/ \E t \in Tasks : AddEnrichment(t)
    \/ \E t \in Tasks : AddEnrichmentFail(t)

SpecApi == InitApi /\ [][NextApi]_vars

(***************************************************************************)
(* Properties of the enrichment coordinator.                               *)
(***************************************************************************)
\* the frames of the enrich_all calls that have returned
ReturnedFrames == {enrich[t] : t \in {u \in Tasks : enrich[u].returned}}

SupportedIn(registry, ioc_type) ==
    {p \in Range(registry) : supports(p, ioc_type)}

\* the tuple enrich_all owes for provider p returning Ok(Some(o.data))
TupleOf(p, o) == <<enrichment_type(p), p, o.data, ttl_hours(p)>>

\* C7: a provider whose enrich returns Err neither aborts enrich_all nor
\* suppresses another provider's result: in every registry order and wherever
\* the failing providers sit, every supported provider is still invoked and
\* every provider that returned Ok(Some(data)) has its tuple in the result.
C7_ErrorIsIsolated ==
    \A f \in ReturnedFrames :
        /\ SupportedIn(providers, f.indicator.ioc_type) \subseteq Range(f.invoked)
        /\ Len(f.outcomes) = Len(f.invoked)
        /\ \A k \in DOMAIN f.outcomes :
              f.outcomes[k].kind = "some"
                  => TupleOf(f.invoked[k], f.outcomes[k]) \in Range(f.results)

\* a call has returned in which a provider failed between two that gave data
C7_Witness ==
    \E f \in ReturnedFrames :
        /\ Len(f.outcomes) = 3
        /\ f.outcomes[1].kind = "some"
        /\ f.outcomes[2].kind = "err"
        /\ f.outcomes[3].kind = "some"
        /\ Len(f.results) = 2

\* C8: enrich_all returns exactly one tuple (enrichment_type, provider name,
\* data, ttl_hours) for each registered provider that supports the indicator's
\* type and returned Ok(Some(data)), no tuple for a provider that returned
\* Ok(None) or Err, and invokes each supported provider exactly once.
C8_OneTuplePerProviderWithData ==
    \A f \in ReturnedFrames :
        /\ \A p \in SupportedIn(providers, f.indicator.ioc_type) :
              Cardinality({k \in DOMAIN f.invoked : f.invoked[k] = p}) = 1
        /\ Len(f.outcomes) = Len(f.invoked)
        /\ \A k \in DOMAIN f.outcomes :
              Cardinality({i \in DOMAIN f.results : f.results[i][2] = f.invoked[k]})
                  = IF f.outcomes[k].kind = "some" THEN 1 ELSE 0
        /\ \A i \in DOMAIN f.results :
              \E k \in DOMAIN f.outcomes :
                  /\ f.outcomes[k].kind = "some"
                  /\ f.results[i] = TupleOf(f.invoked[k], f.outcomes[k])

\* an Ip indicator with GeoIP giving data, AbuseIPDB failing and DNS finding
\* nothing: the result is the one geoip tuple
C8_Witness ==
    \E f \in ReturnedFrames :
        /\ f.indicator.ioc_type = "ip"
        /\ Range(f.invoked) = {"maxmind", "abuseipdb", "dns"}
        /\ \A k \in DOMAIN f.invoked :
              f.outcomes[k].kind = IF f.invoked[k] = "maxmind" THEN "some"
                                   ELSE IF f.invoked[k] = "abuseipdb" THEN "err"
                                   ELSE "none"
        /\ f.results = << <<"geoip", "maxmind", "d1", 168>> >>

\* C9: no enrichment row is stored, by the task spawned after a create or by
\* the on-demand enrich endpoint, for a provider that does not support the
\* indicator's type, and the enrich of such a provider is never invoked.
C9_OnlySupportedProviders ==
    /\ \A e \in enrichments : \A r \in indicators :
          r.id = e.indicator_id
              => /\ supports(e.provider, r.ioc_type)
                 /\ e.enrichment_type = enrichment_type(e.provider)
    /\ \A t \in Tasks : \A p \in Range(enrich[t].invoked) :
          supports(p, enrich[t].indicator.ioc_type)

\* both the spawned task and the endpoint have stored rows for an indicator
\* whose type one of the registered providers does not support
C9_Witness ==
    \E t \in Tasks : \E u \in Tasks \ {t} :
        /\ enrich[t].caller = "create_indicator"
        /\ enrich[t].done /\ enrich[t].added >= 1
        /\ enrich[u].caller = "enrich_indicator"
        /\ enrich[u].done /\ enrich[u].added >= 1
        /\ \E p \in Range(providers) : ~supports(p, enrich[t].indicator.ioc_type)
        /\ \E p \in Range(providers) : ~supports(p, enrich[u].indicator.ioc_type)
        /\ \E e \in enrichments : e.indicator_id = enrich[t].indicator.id

\* C10: within one enrich_all call the providers are invoked concurrently:
\* while the enrich call of one provider is still pending, every other supported
\* provider's call has been started too, so a slow provider delays none.
C10_FanOut ==
    \A t \in Tasks :
        pc[t] = "enrich_await"
            => SupportedIn(providers, enrich[t].indicator.ioc_type)
                   \subseteq Range(enrich[t].invoked)

(***************************************************************************)
(* storage/mod.rs: add_enrichment called on the repository, as both        *)
(* enrichment runs do for each tuple, racing with other calls.             *)
(***************************************************************************)
\* the JSON documents providers hand to add_enrichment
StoredDocuments == {"d1", "d2"}

\* the providers whose tuples the racing calls write
WritingProviders == {"dns", "virustotal"}

\* line 228: add_enrichment(indicator_id, type, provider, data, Some(ttl)) is
\* entered and expires_at is computed from the clock; the statement is pending
AddEnrichmentCall(t) ==
    /\ serving
    /\ pc[t] = "idle"
    /\ calls < MaxCalls
    /\ calls' = calls + 1
    /\ \E ind \in indicators, p \in WritingProviders, data \in StoredDocuments :
          RunOn(t, [NoFrame EXCEPT !.caller = "add_enrichment",
                                   !.indicator = ind,
                                   !.results = << <<enrichment_type(p), p, data,
                                                    ttl_hours(p)>> >>,
                                   !.returned = TRUE],
                ret[t])
    /\ UNCHANGED <<feeds, bulk, now, indicators, sightings, enrichments, nextId, providers,
                   serving, hist>>

NextEnrichStore ==
    \/ Tick
    \/ \E t \in Tasks : UpsertBegin(t)
    \/ \E t \in Tasks : UpsertExec(t)
    \/ \E t \in Tasks : UpsertFail(t)
    \/ \E t \in Tasks : AddEnrichmentCall(t)
    \/ \E t \in Tasks : AddEnrichment(t)
    \/ \E t \in Tasks : AddEnrichmentFail(t)

SpecEnrichStore == Init /\ [][NextEnrichStore]_vars

(***************************************************************************)
(* Properties of the enrichment table.                                     *)
(***************************************************************************)
EnrichmentKey(e) == <<e.indicator_id, e.enrichment_type, e.provider>>

C11_Unique ==
    \A e1 \in enrichments : \A e2 \in enrichments :
        EnrichmentKey(e1) = EnrichmentKey(e2) => e1 = e2

\* the step in which the add_enrichment statement of task t succeeds
EnrichmentWritten(t) ==
    /\ pc[t] = "add_enrichment"
    /\ enrich'[t].added > enrich[t].added

C11_WriteFrame ==
    /\ \A t \in Tasks :
          EnrichmentWritten(t) =>
              LET f == enrich[t]
                  tuple == f.results[f.store_idx]
                  key == <<f.indicator.id, tuple[1], tuple[2]>>
              IN  /\ \E e \in enrichments' :
                        /\ EnrichmentKey(e) = key
                        /\ e.data = tuple[3]
                        /\ e.fetched_at = now
                        /\ e.expires_at = f.expires_at
                  /\ {e \in enrichments' : EnrichmentKey(e) # key}
                        = {e \in enrichments : EnrichmentKey(e) # key}
    /\ (\A t \in Tasks : ~EnrichmentWritten(t)) => enrichments' = enrichments

\* C11: there is never more than one enrichment row per (indicator_id,
\* enrichment_type, provider); when writes of several runs interleave, each
\* executed write leaves its key with its own data, fetched_at and expires_at
\* and leaves the rows of every other key as they were, and nothing else
\* changes the table, so each key ends with the write executed last.
C11_LastWriterWinsPerKey == []C11_Unique /\ [][C11_WriteFrame]_vars

\* two successful calls for one key with different data overlapped: the row
\* holds the data of the one executed last, with the expires_at that call
\* computed before the clock moved on
C11_Witness ==
    \E t \in Tasks : \E u \in Tasks \ {t} : \E e \in enrichments :
        /\ enrich[t].caller = "add_enrichment" /\ enrich[t].done /\ enrich[t].added = 1
        /\ enrich[u].caller = "add_enrichment" /\ enrich[u].done /\ enrich[u].added = 1
        /\ enrich[t].indicator.id = enrich[u].indicator.id
        /\ enrich[t].results[1][2] = enrich[u].results[1][2]
        /\ enrich[t].results[1][3] # enrich[u].results[1][3]
        /\ EnrichmentKey(e) = <<enrich[u].indicator.id, enrich[u].results[1][1],
                                enrich[u].results[1][2]>>
        /\ e.data = enrich[u].results[1][3]
        /\ e.expires_at # None
        /\ e.fetched_at + ttl_hours(e.provider) > e.expires_at[1]
        /\ Cardinality(enrichments) = 1

(***************************************************************************)
(* api/mod.rs: bulk_import                                                 *)
(***************************************************************************)
MaxItems == 3

MaxBulkCalls == 2

\* the items a bulk request carries: two that classify and one with an empty
\* value and no type
BulkItems ==
    { [NoRequest EXCEPT !.value = V_DomainPadded, !.tags = <<"t1">>],
      [NoRequest EXCEPT !.value = V_CveLower, !.severity = Some("critical")],
      [NoRequest EXCEPT !.value = <<>>] }

\* the bodies POST /api/v1/indicators/bulk is called with
BulkRequests ==
    {[indicators |-> l, source |-> "feed", tlp |-> Some("green"),
      tags |-> Some(<<"bulk">>)] :
        l \in UNION {[1..n -> BulkItems] : n \in 1..MaxItems}}

\* lines 129-140: the defaults of the batch applied to one item (the source it
\* sets is not read by upsert_indicator)
ApplyBulkDefaults(item, req) ==
    [item EXCEPT !.tlp = IF @ = None THEN req.tlp ELSE @,
                 !.tags = IF req.tags # None THEN @ \o req.tags[1] ELSE @]

\* format!("{}: {}", indicator_req.value, e), the error kept as one token
FormatError(value, e) == value \o <<":", " ", e>>

\* MatchUpsertResult whose Err arm counts the failure without recording it
MatchUpsertResult_DropsError(b, value, result) ==
    IF result = "ok"
    THEN [b EXCEPT !.created = @ + 1, !.outcomes = Append(@, "ok")]
    ELSE [b EXCEPT !.failed = @ + 1, !.outcomes = Append(@, "err")]

\* lines 143-149: the match on what upsert_indicator returned for one item
MatchUpsertResult(b, value, result) ==
    IF result = "ok"
    THEN [b EXCEPT !.created = @ + 1, !.outcomes = Append(@, "ok")]
    ELSE [b EXCEPT !.failed = @ + 1,
                   !.errors = Append(@, FormatError(value, result)),
                   !.outcomes = Append(@, "err")]

\* the loop goes on from item k: an item whose type cannot be resolved fails
\* inside upsert_indicator without an await; the loop is suspended in the
\* statement of the first item that reaches it, or it ends and the response
\* is built (lines 152-158)
RECURSIVE BulkAdvance(_, _)
BulkAdvance(b, k) ==
    IF k > Len(b.req.indicators)
    THEN [b EXCEPT !.idx = 0,
                   !.response = Some([total |-> b.total, created |-> b.created,
                                      updated |-> b.updated, failed |-> b.failed,
                                      errors |-> b.errors])]
    ELSE LET item == ApplyBulkDefaults(b.req.indicators[k], b.req)
             ioc_type == IF item.ioc_type # None THEN item.ioc_type
                         ELSE detect_ioc_type(item.value)
         IN  IF ioc_type = None
             THEN BulkAdvance(MatchUpsertResult(b, item.value,
                                                "Could not detect IOC type"), k + 1)
             ELSE [b EXCEPT !.idx = k]

\* task t runs bulk_import on with locals b until its next await
BulkRunOn(t, b) ==
    /\ bulk' = [bulk EXCEPT ![t] = b]
    /\ IF b.response = None
       THEN upsert_indicator_begin(t, "bulk_import",
                ApplyBulkDefaults(b.req.indicators[b.idx], b.req), None)
       ELSE Finish(t, [NoReturn EXCEPT !.handler = "bulk_import", !.ok = TRUE,
                                       !.status = 200])

\* lines 123-143: the handler is entered and runs to its first await
BulkImportBegin(t) ==
    /\ serving
    /\ pc[t] = "idle"
    /\ calls < MaxBulkCalls
    /\ calls' = calls + 1
    /\ \E req \in BulkRequests :
          BulkRunOn(t, BulkAdvance([NoBulk EXCEPT !.req = req,
                                                  !.total = Len(req.indicators)], 1))
    /\ UNCHANGED <<feeds, now, enrich, indicators, sightings, enrichments, nextId,
                   providers, serving, hist>>

\* the statement of the item the loop is suspended in succeeds
BulkItemExec(t) ==
    /\ pc[t] = "upsert_stmt"
    /\ loc[t].handler = "bulk_import"
    /\ LET res == UpsertStatement(indicators, PendingExcluded(t))
       IN  /\ indicators' = res.table
           /\ nextId' = IF res.inserted THEN nextId + 1 ELSE nextId
           /\ hist' = IF res.inserted
                      THEN [i \in DOMAIN hist \cup {res.row.id} |->
                               IF i = res.row.id THEN HistInsert(res.row) ELSE hist[i]]
                      ELSE [hist EXCEPT ![res.row.id] = HistMerge(@, PendingExcluded(t))]
    /\ BulkRunOn(t, BulkAdvance(MatchUpsertResult(bulk[t], loc[t].req.value, "ok"),
                                bulk[t].idx + 1))
    /\ UNCHANGED <<feeds, now, enrich, sightings, enrichments, providers, serving, calls>>

\* the database refuses the statement of that item
BulkItemFail(t) ==
    /\ pc[t] = "upsert_stmt"
    /\ loc[t].handler = "bulk_import"
    /\ BulkRunOn(t, BulkAdvance(MatchUpsertResult(bulk[t], loc[t].req.value,
                                                  "Failed to upsert indicator"),
                                bulk[t].idx + 1))
    /\ UNCHANGED <<feeds, now, enrich, indicators, sightings, enrichments, nextId,
                   providers, serving, calls, hist>>

NextBulk ==
    \/ \E t \in Tasks : BulkImportBegin(t)
    \/ \E t \in Tasks : BulkItemExec(t)
    \/ \E t \in Tasks : BulkItemFail(t)

SpecBulk == Init /\ [][NextBulk]_vars

(***************************************************************************)
(* Properties of bulk_import.                                              *)
(***************************************************************************)
\* the position in the request of the j-th item that failed
FailedItem(b, j) ==
    CHOOSE k \in DOMAIN b.outcomes :
        /\ b.outcomes[k] = "err"
        /\ Cardinality({i \in 1..k : b.outcomes[i] = "err"}) = j

\* the row an item is stored in
ItemRows(item) ==
    LET ioc_type == IF item.ioc_type # None THEN item.ioc_type
                    ELSE detect_ioc_type(item.value)
    IN  IF ioc_type = None THEN {}
        ELSE {r \in RowsOfKey(ioc_type[1], normalize_ioc(item.value, ioc_type[1])) :
                 Range(item.tags) \subseteq Range(r.tags)}

\* C12: bulk_import never fails as a whole because of an item: every item
\* whose upsert succeeded is stored whatever became of the items before and
\* after it, the handler answers 200, and the response has total = number of
\* items, created + updated + failed = total, length(errors) = failed, and for
\* each failed item, in order, one string "<value>: <error>"; an item with an
\* empty value and no type is a failed item.
C12_BulkImportIsolatesFailures ==
    \A t \in Tasks :
        LET b == bulk[t]
            items == b.req.indicators
        IN  /\ \A k \in DOMAIN b.outcomes :
                  /\ b.outcomes[k] = "ok" => ItemRows(items[k]) # {}
                  /\ (items[k].value = <<>> /\ items[k].ioc_type = None)
                        => b.outcomes[k] = "err"
            /\ (pc[t] = "idle" /\ ret[t].handler = "bulk_import")
                  => ret[t].ok /\ ret[t].status = 200 /\ b.response # None
            /\ b.response # None =>
                  LET r == b.response[1]
                  IN  /\ Len(b.outcomes) = Len(items)
                      /\ r.total = Len(items)
                      /\ r.created + r.updated + r.failed = r.total
                      /\ Len(r.errors) = r.failed
                      /\ r.failed = Cardinality({k \in DOMAIN items : b.outcomes[k] = "err"})
                      /\ \A j \in DOMAIN r.errors :
                            LET v == items[FailedItem(b, j)].value
                            IN  /\ Len(r.errors[j]) = Len(v) + 3
                                /\ SubSeq(r.errors[j], 1, Len(v) + 2) = v \o <<":", " ">>

\* a batch of three whose second item has an empty value has been answered:
\* two rows stored, one failure reported as ": <message>"
C12_Witness ==
    \E t \in Tasks :
        /\ pc[t] = "idle"
        /\ ret[t].handler = "bulk_import"
        /\ Len(bulk[t].req.indicators) = 3
        /\ bulk[t].req.indicators[2].value = <<>>
        /\ bulk[t].response =
              Some([total |-> 3, created |-> 2, updated |-> 0, failed |-> 1,
                    errors |-> << <<":", " ", "Could not detect IOC type">> >>])
        /\ Cardinality(indicators) = 2

(***************************************************************************)
(* Properties of create_indicator.                                         *)
(***************************************************************************)
\* task t is inside the enrichment pass that its create_indicator spawned
InSpawnedPass(t) ==
    /\ pc[t] \in {"enrich_await", "add_enrichment"}
    /\ enrich[t].caller = "create_indicator"

\* the step in which the upsert of task t's create_indicator comes back
CreateUpsertDone(t) ==
    /\ pc[t] = "upsert_stmt"
    /\ loc[t].handler = "create_indicator"
    /\ pc'[t] # "upsert_stmt"

C13_CreateStep ==
    \A t \in Tasks :
        /\ (CreateUpsertDone(t) /\ ret'[t].ok) =>
              /\ ret'[t].handler = "create_indicator"
              /\ ret'[t].status = 201
              /\ ret'[t].indicator \in indicators'
              /\ enrich'[t].caller = "create_indicator"
              /\ enrich'[t].indicator = ret'[t].indicator
              /\ enrich'[t].outcomes = <<>>
        /\ (CreateUpsertDone(t) /\ ~ret'[t].ok) =>
              /\ ret'[t].status = 400
              /\ enrich'[t] = enrich[t]
              /\ pc'[t] = "idle"
              /\ indicators' = indicators
              /\ enrichments' = enrichments
        /\ (pc[t] = "idle" /\ pc'[t] = "idle" /\ ret'[t].handler = "create_indicator"
                /\ ~ret'[t].ok) => enrich'[t] = enrich[t]
        /\ InSpawnedPass(t) =>
              /\ ret'[t] = ret[t]
              /\ (enrich'[t] # enrich[t] => indicators' = indicators)

C13_ResponseStands ==
    \A t \in Tasks :
        InSpawnedPass(t) =>
            /\ ret[t].handler = "create_indicator"
            /\ ret[t].ok
            /\ ret[t].status = 201
            /\ ret[t].indicator = enrich[t].indicator

\* C13: on single create the enrichment pass is started in the step in which
\* the upsert succeeds and never when it fails; the 201 response carries the
\* row the upsert returned and is given while the pass is still to run; and no
\* step of the pass, whatever the providers return and whether or not the
\* enrichments can be stored, changes the response or any indicator row.
C13_CreateIsFireAndForget == []C13_ResponseStands /\ [][C13_CreateStep]_vars

\* one create was answered 201 while its pass was still waiting for a
\* provider; the pass of another ran to its end with a provider error and an
\* enrichment that could not be stored, and its 201 response still stands
C13_Witness ==
    \E t \in Tasks : \E u \in Tasks \ {t} :
        /\ pc[t] = "idle"
        /\ enrich[t].caller = "create_indicator" /\ enrich[t].done
        /\ \E k \in DOMAIN enrich[t].outcomes : enrich[t].outcomes[k].kind = "err"
        /\ enrich[t].results # <<>>
        /\ enrich[t].added < Len(enrich[t].results)
        /\ ret[t].handler = "create_indicator" /\ ret[t].status = 201
        /\ ret[t].indicator = enrich[t].indicator
        /\ \E r \in indicators : r.id = ret[t].indicator.id
        /\ pc[u] = "enrich_await"
        /\ enrich[u].caller = "create_indicator"
        /\ ret[u].status = 201

\* C14: add_sighting for an indicator_id that does not exist surfaces NotFound
\* (404) and stores nothing: no sighting row refers to a missing indicator.
C14_MissingIndicatorIsNotFound ==
    /\ \A t \in Tasks :
          (pc[t] = "idle" /\ ret[t].handler = "add_sighting" /\ ~ret[t].ok)
              => ret[t].status = 404 /\ ret[t].error = "Indicator not found"
    /\ \A s \in sightings : \E r \in indicators : r.id = s.indicator_id

(***************************************************************************)
(* storage/mod.rs: delete_expired; api/mod.rs: delete_indicator; and the   *)
(* specification of the store with the expiration sweep.                   *)
(***************************************************************************)
\* DeleteExpiredStatement with expiration <= NOW()
DeleteExpiredStatement_Inclusive(table, ts) ==
    {r \in table : ~(r.expiration # None /\ r.expiration[1] <= ts)}

\* DELETE FROM indicators WHERE expiration IS NOT NULL AND expiration < NOW():
\* the table after the statement
DeleteExpiredStatement(table, ts) ==
    {r \in table : ~(r.expiration # None /\ r.expiration[1] < ts)}

\* lines 206-215: the statement runs and rows_affected comes back
DeleteExpired(t) ==
    /\ serving
    /\ pc[t] = "idle"
    /\ calls < MaxCalls
    /\ calls' = calls + 1
    /\ LET after == DeleteExpiredStatement(indicators, now)
       IN  /\ indicators' = after
           /\ Finish(t, [NoReturn EXCEPT
                            !.handler = "delete_expired", !.ok = TRUE,
                            !.call = calls + 1,
                            !.rows_affected = Cardinality(indicators)
                                                - Cardinality(after)])
    /\ UNCHANGED <<feeds, bulk, now, enrich, sightings, enrichments, nextId, providers,
                   serving, hist>>

\* .context("Failed to delete expired indicators")?: the statement is refused
DeleteExpiredFail(t) ==
    /\ serving
    /\ pc[t] = "idle"
    /\ calls < MaxCalls
    /\ calls' = calls + 1
    /\ Finish(t, [NoReturn EXCEPT !.handler = "delete_expired",
                                  !.call = calls + 1,
                                  !.error = "Failed to delete expired indicators"])
    /\ UNCHANGED <<feeds, bulk, now, enrich, indicators, sightings, enrichments, nextId,
                   providers, serving, hist>>

\* DeleteIndicator with the delete implemented
DeleteIndicator_Removes(t) ==
    /\ serving
    /\ pc[t] = "idle"
    /\ calls < MaxCalls
    /\ calls' = calls + 1
    /\ \E id \in KnownIds :
          /\ indicators' = {r \in indicators : r.id # id}
          /\ Finish(t, [NoReturn EXCEPT !.handler = "delete_indicator", !.ok = TRUE,
                                        !.status = 204, !.call = calls + 1,
                                        !.indicator = [NoIndicator EXCEPT !.id = id]])
    /\ UNCHANGED <<feeds, bulk, now, enrich, sightings, enrichments, nextId,
                   providers, serving, hist>>

\* api/mod.rs lines 193-199: DELETE /api/v1/indicators/{id}
DeleteIndicator(t) ==
    /\ serving
    /\ pc[t] = "idle"
    /\ calls < MaxCalls
    /\ calls' = calls + 1
    /\ \E id \in KnownIds :
          Finish(t, [NoReturn EXCEPT !.handler = "delete_indicator", !.ok = TRUE,
                                     !.status = 204, !.call = calls + 1,
                                     !.indicator = [NoIndicator EXCEPT !.id = id]])
    /\ UNCHANGED <<feeds, bulk, now, enrich, indicators, sightings, enrichments, nextId,
                   providers, serving, hist>>

\* the upserts of the sweep specification: an expiration that is reached
\* within the horizon of the clock, one that is not, and none
SweepCalls ==
    { [req |-> [NoRequest EXCEPT !.value = V_DomainLower,
                                 !.expiration_days = Some(0)],
       source_id |-> None],
      [req |-> [NoRequest EXCEPT !.value = V_CveLower,
                                 !.expiration_days = Some(1)],
       source_id |-> None],
      [req |-> [NoRequest EXCEPT !.value = V_DomainUpper],
       source_id |-> Some("s1")] }

SweepUpsertBegin(t) ==
    /\ serving
    /\ pc[t] = "idle"
    /\ calls < MaxCalls
    /\ calls' = calls + 1
    /\ \E c \in SweepCalls :
          upsert_indicator_begin(t, "upsert_indicator", c.req, c.source_id)
    /\ UNCHANGED <<feeds, bulk, now, enrich, indicators, sightings, enrichments, nextId,
                   providers, serving, hist>>

NextSweep ==
    \/ Tick
    \/ \E t \in Tasks : SweepUpsertBegin(t)
    \/ \E t \in Tasks : UpsertExec(t)
    \/ \E t \in Tasks : UpsertFail(t)
    \/ \E t \in Tasks : UpdateThreatScore(t)
    \/ \E t \in Tasks : AddSightingInsert(t)
    \/ \E t \in Tasks : AddSightingUpdate(t)
    \/ \E t \in Tasks : AddEnrichmentCall(t)
    \/ \E t \in Tasks : AddEnrichment(t)
    \/ \E t \in Tasks : AddEnrichmentFail(t)
    \/ \E t \in Tasks : DeleteIndicator(t)
    \/ \E t \in Tasks : DeleteExpired(t)
    \/ \E t \in Tasks : DeleteExpiredFail(t)

SpecSweep == Init /\ [][NextSweep]_vars

(***************************************************************************)
(* Properties of the expiration sweep.                                     *)
(***************************************************************************)
\* the step in which a call of handler h by task t is entered and returns at
\* once (these answers carry the number of their call)
ReturnsAtOnce(t, h) ==
    /\ pc[t] = "idle"
    /\ pc'[t] = "idle"
    /\ calls' = calls + 1
    /\ ret'[t].handler = h
    /\ ret'[t].call = calls'

Expired(r, ts) == r.expiration # None /\ r.expiration[1] < ts

C15_SweepStep ==
    \A t \in Tasks :
        (ReturnsAtOnce(t, "delete_expired") /\ ret'[t].ok) =>
            /\ indicators \ indicators' = {r \in indicators : Expired(r, now)}
            /\ indicators' \subseteq indicators
            /\ \A r \in indicators : ~Expired(r, now) => r \in indicators'
            /\ ret'[t].rows_affected = Cardinality({r \in indicators : Expired(r, now)})

\* C15: delete_expired removes exactly the indicators whose expiration is set
\* and earlier than now, leaves every other indicator (no expiration, or
\* expiration >= now) as it was, and returns the number of rows removed.
C15_DeleteExpiredRemovesExactlyExpired == [][C15_SweepStep]_vars

\* a sweep has removed one row and has left a row whose expiration is set
C15_Witness ==
    \E t \in Tasks :
        /\ pc[t] = "idle"
        /\ ret[t].handler = "delete_expired" /\ ret[t].ok
        /\ ret[t].rows_affected = 1
        /\ \E r \in indicators : r.expiration # None

C16_Step ==
    /\ (\A t \in Tasks : ~(ReturnsAtOnce(t, "delete_expired") /\ ret'[t].ok))
          => \A r \in indicators : \E r2 \in indicators' : r2.id = r.id
    /\ \A t \in Tasks :
          ReturnsAtOnce(t, "delete_indicator") => indicators' = indicators

V_EmailSchemeUpper == <<"H","T","T","P",":","/","/","a","@","b",".","c">>
V_EmailSchemeLower == <<"h","t","t","p",":","/","/","a","@","b",".","c">>

\* the values lookups are made with
LookupValues ==
    {V_DomainPadded, V_DomainUpper, V_DomainLower, V_CveLower, V_Unclassifiable,
     V_EmailSchemeUpper, V_EmailSchemeLower}

\* the upserts of the lookup specification: types left to detection, and one
\* request that names its type
LookupCalls ==
    { [req |-> [NoRequest EXCEPT !.value = V_DomainPadded], source_id |-> None],
      [req |-> [NoRequest EXCEPT !.value = V_CveLower], source_id |-> None],
      [req |-> [NoRequest EXCEPT !.value = V_EmailSchemeUpper], source_id |-> None],
      [req |-> [NoRequest EXCEPT !.value = V_DomainUpper,
                                 !.ioc_type = Some("email")],
       source_id |-> None] }

\* lines 108-134: the rows fetch_optional can return, none when the set is
\* empty: the row of (detected type, normalised value), or, when no type is
\* detected, the rows whose value is literally the argument
get_indicator_by_value(table, value) ==
    LET ioc_type == detect_ioc_type(value)
    IN  IF ioc_type # None
        THEN {r \in table : /\ r.ioc_type = ioc_type[1]
                            /\ r.value = normalize_ioc(value, ioc_type[1])}
        ELSE {r \in table : r.value = value}

LookupUpsertBegin(t) ==
    /\ serving
    /\ pc[t] = "idle"
    /\ calls < MaxCalls
    /\ calls' = calls + 1
    /\ \E c \in LookupCalls :
          upsert_indicator_begin(t, "upsert_indicator", c.req, c.source_id)
    /\ UNCHANGED <<feeds, bulk, now, enrich, indicators, sightings, enrichments, nextId,
                   providers, serving, hist>>

\* get_indicator_by_value(value) called on the repository
GetIndicatorByValue(t) ==
    /\ serving
    /\ pc[t] = "idle"
    /\ calls < MaxCalls
    /\ calls' = calls + 1
    /\ \E value \in LookupValues :
          LET found == get_indicator_by_value(indicators, value)
          IN  \E r \in (IF found = {} THEN {NoIndicator} ELSE found) :
                 Finish(t, [NoReturn EXCEPT !.handler = "get_indicator_by_value",
                                            !.ok = (found # {}),
                                            !.req = [NoRequest EXCEPT !.value = value],
                                            !.indicator = r])
    /\ UNCHANGED <<feeds, bulk, now, enrich, indicators, sightings, enrichments, nextId,
                   providers, serving, hist>>

NextLookup ==
    \/ \E t \in Tasks : LookupUpsertBegin(t)
    \/ \E t \in Tasks : UpsertExec(t)
    \/ \E t \in Tasks : UpsertFail(t)
    \/ \E t \in Tasks : GetIndicatorByValue(t)

SpecLookup == Init /\ [][NextLookup]_vars

(***************************************************************************)
(* Properties of the lookup by value.                                      *)
(***************************************************************************)
\* C17: for every classifiable raw value v and every store state,
\* get_indicator_by_value(v) returns the same result as
\* get_indicator_by_value(normalize(v, classify(v))).
C17_LookupStableUnderNormalisation ==
    \A v \in LookupValues :
        detect_ioc_type(v) # None
            => get_indicator_by_value(indicators, v)
                 = get_indicator_by_value(indicators,
                                          normalize_ioc(v, detect_ioc_type(v)[1]))

\* C18: an indicator created by upsert_indicator from a request with value v,
\* its type given or detected, is returned by get_indicator_by_value for v and
\* for every case or whitespace variant of v that normalises to the stored
\* value.
C18_UpsertedIsFoundByValue ==
    \A t \in Tasks :
        (pc[t] = "idle" /\ ret[t].handler = "upsert_indicator" /\ ret[t].ok) =>
            \A r \in indicators :
                r.id = ret[t].indicator.id =>
                    \A w \in LookupValues :
                        (w = ret[t].req.value \/ normalize_ioc(w, r.ioc_type) = r.value)
                            => get_indicator_by_value(indicators, w) = {r}

(***************************************************************************)
(* models/ioc_utils.rs: normalize_ioc applied to its own result.           *)
(***************************************************************************)
MaxLen == 6

\* an upper-case and a lower-case letter, the characters of "://" and of a
\* path, and whitespace
NormalizeAlphabet == {"A", "b", ":", "/", " "}

NormalizeValues == UNION {[1..n -> NormalizeAlphabet] : n \in 0..MaxLen}

InitNormalize ==
    /\ InitStore
    /\ providers = <<>>
    /\ serving = TRUE

\* normalize_ioc(value, &ioc_type) called with one of the values and types
\* (one value per behaviour)
NormalizeCall(t) ==
    /\ pc[t] = "idle"
    /\ calls = 0
    /\ calls' = calls + 1
    /\ \E value \in NormalizeValues, ioc_type \in IocType :
          /\ loc' = [loc EXCEPT ![t] =
                        [NoLocals EXCEPT
                            !.handler = "normalize_ioc",
                            !.req = [NoRequest EXCEPT !.value = value],
                            !.ioc_type = ioc_type,
                            !.normalized_value = normalize_ioc(value, ioc_type)]]
          /\ pc' = [pc EXCEPT ![t] = "normalized"]
    /\ UNCHANGED <<feeds, bulk, now, enrich, indicators, sightings, enrichments, nextId,
                   providers, serving, ret, hist>>

\* normalize_ioc called again with the result of the first call
NormalizeAgain(t) ==
    /\ pc[t] = "normalized"
    /\ ret' = [ret EXCEPT ![t] =
                  [NoReturn EXCEPT
                      !.handler = "normalize_ioc", !.ok = TRUE,
                      !.indicator = [NoIndicator EXCEPT
                          !.ioc_type = loc[t].ioc_type,
                          !.value = normalize_ioc(loc[t].normalized_value,
                                                  loc[t].ioc_type)]]]
    /\ pc' = [pc EXCEPT ![t] = "renormalized"]
    /\ UNCHANGED <<feeds, bulk, now, enrich, indicators, sightings, enrichments, nextId,
                   providers, serving, loc, calls, hist>>

NextNormalize ==
    \/ \E t \in Tasks : NormalizeCall(t)
    \/ \E t \in Tasks : NormalizeAgain(t)

SpecNormalize == InitNormalize /\ [][NextNormalize]_vars

\* C19: normalize is idempotent for every value v and every IocType t:
\* normalize(normalize(v, t), t) = normalize(v, t), for Url values with and
\* without a path after the authority as for the other types.
C19_NormalizeIsIdempotent ==
    \A t \in Tasks :
        pc[t] = "renormalized" => ret[t].indicator.value = loc[t].normalized_value

\* a Url with a path has been normalised twice: its authority was lowered
\* and its path kept its case
C19_Witness ==
    \E t \in Tasks :
        /\ pc[t] = "renormalized"
        /\ loc[t].ioc_type = "url"
        /\ loc[t].req.value = <<":", "/", "/", "A", "/", "A">>
        /\ loc[t].normalized_value = <<":", "/", "/", "a", "/", "A">>
        /\ ret[t].indicator.value = loc[t].normalized_value

(***************************************************************************)
(* models/mod.rs: Severity::from(i32) applied to scores.                   *)
(***************************************************************************)
ScoreMargin == 5

\* the scores the conversion is applied to: 0..100 and a margin on each side
ScoreRange == (0 - ScoreMargin)..(100 + ScoreMargin)

\* Severity::from(score) called with one of the scores; the answer carries
\* the score and the severity
SeverityFromScore(t) ==
    /\ pc[t] = "idle"
    /\ calls < MaxCalls
    /\ calls' = calls + 1
    /\ \E score \in ScoreRange :
          Finish(t, [NoReturn EXCEPT
                        !.handler = "severity_from_score", !.ok = TRUE,
                        !.indicator = [NoIndicator EXCEPT
                            !.threat_score = score,
                            !.severity = severity_from_score(score)]])
    /\ UNCHANGED <<feeds, bulk, now, enrich, indicators, sightings, enrichments, nextId,
                   providers, serving, hist>>

NextSeverity == \E t \in Tasks : SeverityFromScore(t)

SpecSeverity == Init /\ [][NextSeverity]_vars

\* the conversions that have been made: (score, severity) pairs
Converted ==
    {<<ret[t].indicator.threat_score, ret[t].indicator.severity>> :
        t \in {u \in Tasks : ret[u].handler = "severity_from_score"}}

\* total, and the buckets: 0-20 Low, 21-50 Medium, 51-80 High, 81-100
\* Critical, every other integer Unknown
SeverityBuckets ==
    \A c \in Converted :
        /\ c[2] \in Range(Severity)
        /\ (c[1] \in 0..20 <=> c[2] = "low")
        /\ (c[1] \in 21..50 <=> c[2] = "medium")
        /\ (c[1] \in 51..80 <=> c[2] = "high")
        /\ (c[1] \in 81..100 <=> c[2] = "critical")
        /\ (c[1] \notin 0..100 <=> c[2] = "unknown")

\* C20 as stated: severity_from_score is total, monotone non-decreasing in
\* score over all integers under Unknown < Low < Medium < High < Critical, and
\* its buckets tile [0,100], every other integer mapped to Unknown.
C20_MonotoneOverAllScores ==
    /\ SeverityBuckets
    /\ \A c \in Converted : \A e \in Converted :
          c[1] <= e[1] => SeverityOrd(c[2]) <= SeverityOrd(e[2])

\* C20 amended: severity_from_score is total, its buckets tile [0,100] as
\* stated with every other integer mapped to Unknown, and it is monotone
\* non-decreasing in score over the scores up to 100; above 100 it falls back
\* to Unknown.
C20_MonotoneUpTo100 ==
    /\ SeverityBuckets
    /\ \A c \in Converted : \A e \in Converted :
          (c[1] <= e[1] /\ e[1] <= 100) => SeverityOrd(c[2]) <= SeverityOrd(e[2])
    /\ \A c \in Converted : c[1] > 100 => c[2] = "unknown"

\* 20 has been converted to Low and 21 to Medium
C20_Witness == {<<20, "low">>, <<21, "medium">>} \subseteq Converted

(***************************************************************************)
(* storage/mod.rs: search_indicators                                       *)
(***************************************************************************)
\* i64::MAX, what `as i64` gives for an infinite f64; the integers of the
\* model end at 2^31 - 1 and no count comes near it
I64_MAX == 2147483647

Min(a, b) == IF a <= b THEN a ELSE b

\* IndicatorFilter::default()
NoFilter ==
    [ioc_type |-> None, severity |-> None, min_confidence |-> None,
     min_threat_score |-> None, tags |-> None, source_id |-> None,
     first_seen_after |-> None, first_seen_before |-> None, search |-> None,
     page |-> None, per_page |-> None]

\* the filters search_indicators is called with
SearchFilters ==
    { NoFilter,
      [NoFilter EXCEPT !.page = Some(0), !.per_page = Some(0)],
      [NoFilter EXCEPT !.page = Some(-1), !.per_page = Some(-1)],
      [NoFilter EXCEPT !.page = Some(2), !.per_page = Some(1)],
      [NoFilter EXCEPT !.per_page = Some(1001)],
      [NoFilter EXCEPT !.tags = Some(<<"t2">>)],
      [NoFilter EXCEPT !.source_id = Some("s1")],
      [NoFilter EXCEPT !.first_seen_after = Some(1), !.first_seen_before = Some(2)],
      [NoFilter EXCEPT !.ioc_type = Some("domain")],
      [NoFilter EXCEPT !.severity = Some("critical"), !.min_confidence = Some(60)],
      [NoFilter EXCEPT !.min_threat_score = Some(60), !.search = Some(<<"B">>)] }

\* lines 143-161: the conditions pushed for the fields that are present
Conditions(filter) ==
    <<"1=1">>
    \o (IF filter.ioc_type # None THEN <<"ioc_type = $1">> ELSE <<>>)
    \o (IF filter.severity # None THEN <<"severity = $2">> ELSE <<>>)
    \o (IF filter.min_confidence # None THEN <<"confidence >= $3">> ELSE <<>>)
    \o (IF filter.min_threat_score # None THEN <<"threat_score >= $4">> ELSE <<>>)
    \o (IF filter.search # None THEN <<"value ILIKE $5">> ELSE <<>>)

\* lines 166-175 and 177-182: neither query binds a parameter, so a
\* statement that names one is refused, and so is a negative LIMIT or OFFSET
StatementRuns(conditions, limit, offset) ==
    /\ \A i \in DOMAIN conditions : conditions[i] = "1=1"
    /\ limit >= 0
    /\ offset >= 0

\* WHERE 1=1: the rows a statement that runs selects
WhereRows(table, conditions) == table

\* ORDER BY last_seen DESC: the orders the database may return the rows in
OrderByLastSeenDesc(rows) ==
    {s \in [1..Cardinality(rows) -> rows] :
        \A i, j \in 1..Cardinality(rows) :
            i < j => s[i] # s[j] /\ s[i].last_seen >= s[j].last_seen}

\* LIMIT limit OFFSET offset
LimitOffset(s, limit, offset) == SubSeq(s, offset + 1, Min(offset + limit, Len(s)))

\* the least integer that is not below a / b, for a >= 0 and b > 0
CeilDiv(a, b) == (a + b - 1) \div b

\* line 187: (total.0 as f64 / per_page as f64).ceil() as i64
total_pages(total, per_page) ==
    IF per_page = 0
    THEN IF total = 0 THEN 0 ELSE I64_MAX
    ELSE IF per_page > 0 THEN CeilDiv(total, per_page)
    ELSE 0 - (total \div (0 - per_page))

\* the requests the searched store is filled with
SearchCalls ==
    { [req |-> [NoRequest EXCEPT !.value = V_DomainPadded, !.tags = <<"t1">>],
       source_id |-> Some("s1")],
      [req |-> [NoRequest EXCEPT !.value = V_CveLower,
                                 !.severity = Some("critical"),
                                 !.confidence = Some(80),
                                 !.tags = <<"t2">>],
       source_id |-> None] }

SearchUpsertBegin(t) ==
    /\ serving
    /\ pc[t] = "idle"
    /\ calls < MaxCalls
    /\ calls' = calls + 1
    /\ \E c \in SearchCalls :
          upsert_indicator_begin(t, "upsert_indicator", c.req, c.source_id)
    /\ UNCHANGED <<feeds, bulk, now, enrich, indicators, sightings, enrichments, nextId,
                   providers, serving, hist>>

\* lines 138-175: page, per_page and offset, the WHERE clause, and the SELECT
SearchBegin(t) ==
    /\ serving
    /\ pc[t] = "idle"
    /\ calls < MaxCalls
    /\ calls' = calls + 1
    /\ \E filter \in SearchFilters :
          LET page == Max(unwrap_or(filter.page, 1), 1)
              per_page == Min(unwrap_or(filter.per_page, 50), 1000)
              offset == (page - 1) * per_page
              conditions == Conditions(filter)
          IN  IF StatementRuns(conditions, per_page, offset)
              THEN \E s \in OrderByLastSeenDesc(WhereRows(indicators, conditions)) :
                      /\ loc' = [loc EXCEPT ![t] =
                                    [NoLocals EXCEPT
                                        !.handler = "search_indicators",
                                        !.search = Some([filter |-> filter,
                                                         page |-> page,
                                                         per_page |-> per_page,
                                                         conditions |-> conditions,
                                                         indicators |->
                                                            LimitOffset(s, per_page, offset)])]]
                      /\ pc' = [pc EXCEPT ![t] = "search_count"]
                      /\ UNCHANGED ret
              ELSE Finish(t, [NoReturn EXCEPT
                                 !.handler = "search_indicators",
                                 !.error = "Failed to search indicators"])
    /\ UNCHANGED <<feeds, bulk, now, enrich, indicators, sightings, enrichments, nextId,
                   providers, serving, hist>>

\* lines 177-188: SELECT COUNT(*) with the same WHERE clause, and the response
SearchCount(t) ==
    /\ pc[t] = "search_count"
    /\ LET f == loc[t].search[1]
           total == Cardinality(WhereRows(indicators, f.conditions))
       IN  Finish(t, [NoReturn EXCEPT
                         !.handler = "search_indicators", !.ok = TRUE,
                         !.paginated = Some([data |-> f.indicators,
                                             total |-> total,
                                             page |-> f.page,
                                             per_page |-> f.per_page,
                                             total_pages |->
                                                total_pages(total, f.per_page)])])
    /\ UNCHANGED <<feeds, bulk, now, enrich, indicators, sightings, enrichments, nextId,
                   providers, serving, calls, hist>>

NextSearch ==
    \/ Tick
    \/ \E t \in Tasks : SearchUpsertBegin(t)
    \/ \E t \in Tasks : UpsertExec(t)
    \/ \E t \in Tasks : SearchBegin(t)
    \/ \E t \in Tasks : SearchCount(t)

SpecSearch == Init /\ [][NextSearch]_vars

(***************************************************************************)
(* Properties of search_indicators.                                        *)
(***************************************************************************)
\* search_indicators answers Ok in this step of task t
SearchAnswers(t) == pc[t] = "search_count" /\ pc'[t] = "idle" /\ ret'[t].ok

SearchPaginationStep ==
    \A t \in Tasks :
        SearchAnswers(t) =>
            LET filter == loc[t].search[1].filter
                r == ret'[t].paginated[1]
            IN  /\ r.page >= 1
                /\ filter.page = None => r.page = 1
                /\ r.per_page \in 1..1000
                /\ filter.per_page = None => r.per_page = 50
                /\ Len(r.data) <= r.per_page
                /\ r.total_pages = CeilDiv(r.total, r.per_page)

\* C21: whatever page and per_page the filter carries, search_indicators
\* answers with page >= 1 (default 1), per_page within [1, 1000] (default
\* 50), at most per_page rows, and total_pages = ceil(total / per_page).
C21_PaginationIsClamped == [][SearchPaginationStep]_vars

\* the row satisfies every field the filter supplies
Matches(r, filter) ==
    /\ filter.ioc_type # None => r.ioc_type = filter.ioc_type[1]
    /\ filter.severity # None => r.severity = filter.severity[1]
    /\ filter.min_confidence # None => r.confidence >= filter.min_confidence[1]
    /\ filter.min_threat_score # None => r.threat_score >= filter.min_threat_score[1]
    /\ filter.tags # None => Range(filter.tags[1]) \subseteq Range(r.tags)
    /\ filter.source_id # None => filter.source_id[1] \in Range(r.source_ids)
    /\ filter.first_seen_after # None => r.first_seen >= filter.first_seen_after[1]
    /\ filter.first_seen_before # None => r.first_seen <= filter.first_seen_before[1]
    /\ filter.search # None =>
          find(to_lowercase(r.value), to_lowercase(filter.search[1])) # 0

SearchFilterStep ==
    \A t \in Tasks :
        SearchAnswers(t) =>
            LET filter == loc[t].search[1].filter
                r == ret'[t].paginated[1]
            IN  /\ \A i \in DOMAIN r.data : Matches(r.data[i], filter)
                /\ r.total = Cardinality({x \in indicators : Matches(x, filter)})

\* C22: search_indicators returns exactly the indicators that satisfy every
\* supplied filter field, combined with AND; an absent field restricts
\* nothing, and total is the size of that same filtered set.
C22_SearchAppliesEveryFilter == [][SearchFilterStep]_vars

(***************************************************************************)
(* storage/mod.rs: upsert_indicator and update_threat_score with any       *)
(* confidence and any score.                                               *)
(***************************************************************************)
\* the i32 values a caller passes as confidence or score: the ends of 0..100
\* and their neighbours outside
ScoreValues == {-1, 0, 100, 101}

ScoreCalls ==
    { [req |-> [NoRequest EXCEPT !.value = V_DomainLower, !.confidence = c],
       source_id |-> None] : c \in {None} \cup {Some(v) : v \in ScoreValues} }
    \cup
    { [req |-> [NoRequest EXCEPT !.value = V_CveLower], source_id |-> None] }

ScoreUpsertBegin(t) ==
    /\ serving
    /\ pc[t] = "idle"
    /\ calls < MaxCalls
    /\ calls' = calls + 1
    /\ \E c \in ScoreCalls :
          upsert_indicator_begin(t, "upsert_indicator", c.req, c.source_id)
    /\ UNCHANGED <<feeds, bulk, now, enrich, indicators, sightings, enrichments, nextId,
                   providers, serving, hist>>

\* update_threat_score(id, score) with any stored or unknown id and any score
UpdateThreatScoreCall(t) ==
    /\ serving
    /\ pc[t] = "idle"
    /\ calls < MaxCalls
    /\ calls' = calls + 1
    /\ \E id \in KnownIds, score \in ScoreValues :
          /\ indicators' = UpdateThreatScoreStatement(indicators, id, score, now)
          /\ hist' = [i \in DOMAIN hist |->
                         IF i = id THEN [hist[i] EXCEPT !.rescored = TRUE] ELSE hist[i]]
          /\ Finish(t, [NoReturn EXCEPT !.handler = "update_threat_score",
                                        !.ok = TRUE, !.call = calls + 1])
    /\ UNCHANGED <<feeds, bulk, now, enrich, sightings, enrichments, nextId, providers,
                   serving>>

NextScore ==
    \/ Tick
    \/ \E t \in Tasks : ScoreUpsertBegin(t)
    \/ \E t \in Tasks : UpsertExec(t)
    \/ \E t \in Tasks : UpdateThreatScoreCall(t)

SpecScore == Init /\ [][NextScore]_vars

ThreatScoreInRange == \A r \in indicators : r.threat_score \in 0..100

ThreatScoreStep ==
    \A t \in Tasks :
        /\ (UpsertReturns(t) /\ ret'[t].indicator \notin indicators
                /\ ~\E r \in indicators : r.id = ret'[t].indicator.id) =>
              ret'[t].indicator.threat_score = ret'[t].indicator.confidence
        /\ ReturnsAtOnce(t, "update_threat_score") =>
              \E id \in KnownIds :
                  /\ \A r \in indicators : r.id # id => r \in indicators'
                  /\ \A r \in indicators' :
                        r.id = id => r.severity = severity_from_score(r.threat_score)
                  /\ Cardinality(indicators') = Cardinality(indicators)

\* C23: every indicator row has threat_score within [0, 100] in every
\* reachable state, after any upsert_indicator (any confidence) and
\* update_threat_score (any score); a new row has threat_score equal to its
\* confidence, and update_threat_score sets the score and the severity of
\* that row only.
C23_ThreatScoreWithinBounds == []ThreatScoreInRange /\ [][ThreatScoreStep]_vars

(***************************************************************************)
(* models/ioc_utils.rs: detect_ioc_type applied to values.                 *)
(***************************************************************************)
MaxDetectLen == 3

DetectAlphabet == {"1", ".", "/", "@", "a", " "}

Hex32 == [i \in 1..32 |-> IF i % 2 = 0 THEN "a" ELSE "1"]

\* the values detect_ioc_type is applied to: every short string of the
\* alphabet, and values of each rule and of each pair of rules that overlap
DetectValues ==
    UNION {[1..n -> DetectAlphabet] : n \in 0..MaxDetectLen}
    \cup
    { V_DomainPadded, V_DomainUpper, V_CveLower, V_Unclassifiable,
      V_EmailSchemeUpper, V_EmailSchemeLower,
      Hex32, Hex32 \o <<"F","F","0","0","a","b","c","d">>,
      Hex32 \o Hex32, SubSeq(Hex32, 1, 31), SubSeq(Hex32, 1, 31) \o <<"g">>,
      <<" ">> \o Hex32 \o <<" ">>,
      <<"c","V","e","-","@",".">>, <<"C","V","E">>,
      <<"h","t","t","p","s",":","/","/","a">>, <<"h","t","t","p",":","/">>,
      <<"1",".","2",".","3",".","4">>, <<"1",".","2",".","3",".","2","5","6">>,
      <<"1",".","2",".","3">>, <<":",":","1">>, <<"f","e","8","0",":",":","1">>,
      <<"1",".","2",".","3",".","4","/","2","4">>,
      <<"1",".","2",".","3",".","4","/","2","4","/","x">>,
      <<"1",".","2",".","3",".","4","/">>, <<":",":","1","/","6","4">>,
      <<"a","@","1",".","2",".","3",".","4">>,
      <<"a","-","b",".","c","0">>, <<"a","_","b",".","c">>, <<"a",".","b","\t","c">>,
      <<"a",".","b","/","c">>, <<"a",".","b"," ","c">> }

\* detect_ioc_type(value) called with one of the values (one per behaviour)
DetectCall(t) ==
    /\ pc[t] = "idle"
    /\ calls = 0
    /\ calls' = calls + 1
    /\ \E value \in DetectValues :
          LET r == detect_ioc_type(value)
          IN  Finish(t, [NoReturn EXCEPT
                            !.handler = "detect_ioc_type", !.ok = TRUE,
                            !.req = [NoRequest EXCEPT !.value = value,
                                                      !.ioc_type = r]])
    /\ UNCHANGED <<feeds, bulk, now, enrich, indicators, sightings, enrichments, nextId,
                   providers, serving, hist>>

NextDetect == \E t \in Tasks : DetectCall(t)

SpecDetect == Init /\ [][NextDetect]_vars

(***************************************************************************)
(* The detection rules, each on its own.                                   *)
(***************************************************************************)
RuleTypes == <<"cve", "hash", "url", "email", "ip", "ip", "domain">>

IsIpAddr(s) == parse_Ipv4Addr(s) \/ parse_Ipv6Addr(s)

LeftOfFirstSlash(s) == SubSeq(s, 1, find(s, <<"/">>) - 1)

SlashCount(s) == Cardinality({i \in DOMAIN s : s[i] = "/"})

\* rule k matches s; cidr is the CIDR rule in force
RuleMatches(k, s, cidr) ==
    IF k = 1 THEN starts_with(to_uppercase(s), <<"C","V","E","-">>)
    ELSE IF k = 2 THEN /\ Len(s) \in {32, 40, 64}
                       /\ \A i \in DOMAIN s : is_ascii_hexdigit(s[i])
    ELSE IF k = 3 THEN \/ starts_with(s, <<"h","t","t","p",":","/","/">>)
                       \/ starts_with(s, <<"h","t","t","p","s",":","/","/">>)
    ELSE IF k = 4 THEN "@" \in Range(s) /\ "." \in Range(s)
    ELSE IF k = 5 THEN IsIpAddr(s)
    ELSE IF k = 6 THEN IF cidr = "first slash"
                       THEN "/" \in Range(s) /\ IsIpAddr(LeftOfFirstSlash(s))
                       ELSE SlashCount(s) = 1 /\ IsIpAddr(LeftOfFirstSlash(s))
    ELSE /\ "." \in Range(s)
         /\ \A i \in DOMAIN s : ~is_whitespace(s[i]) /\ s[i] \notin {"/", "@"}
         /\ \A i \in DOMAIN s : is_alphanumeric(s[i]) \/ s[i] \in {".", "-"}

\* the type of the first rule that matches the trimmed value, if any
FirstMatch(value, cidr) ==
    LET s == trim(value)
        hits == {k \in DOMAIN RuleTypes : RuleMatches(k, s, cidr)}
    IN  IF s = <<>> \/ hits = {} THEN None
        ELSE Some(RuleTypes[CHOOSE k \in hits : \A j \in hits : k <= j])

DetectReturned == {t \in Tasks : ret[t].handler = "detect_ioc_type"}

\* C24 as stated: detect_ioc_type returns the type of the first rule that
\* matches the trimmed input, the CIDR rule being "contains / and the text
\* left of the first / parses as IPv4 or IPv6"; None otherwise and for empty
\* input.
C24_FirstRuleWins_FirstSlash ==
    \A t \in DetectReturned :
        ret[t].req.ioc_type = FirstMatch(ret[t].req.value, "first slash")

\* C24 amended: the same, the CIDR rule being "contains exactly one / and
\* the text left of it parses as IPv4 or IPv6".
C24_FirstRuleWins_OneSlash ==
    \A t \in DetectReturned :
        ret[t].req.ioc_type = FirstMatch(ret[t].req.value, "one slash")

\* a value that the Url and the Email rule both match has been classified
\* as Url
C24_Witness ==
    \E t \in DetectReturned :
        /\ ret[t].req.value = V_EmailSchemeLower
        /\ RuleMatches(3, trim(ret[t].req.value), "one slash")
        /\ RuleMatches(4, trim(ret[t].req.value), "one slash")
        /\ ret[t].req.ioc_type = Some("url")

(***************************************************************************)
(* Properties of create_indicator's error answers.                         *)
(***************************************************************************)
\* create_indicator of task t answers an error in this step
CreateFails(t) ==
    /\ pc'[t] = "idle"
    /\ \/ pc[t] = "upsert_stmt" /\ loc[t].handler = "create_indicator"
       \/ pc[t] = "idle" /\ calls' = calls + 1
    /\ ret'[t].handler = "create_indicator"
    /\ ~ret'[t].ok

CreateErrorStatus ==
    \A t \in Tasks :
        (ret[t].handler = "create_indicator" /\ ~ret[t].ok) =>
            /\ ret[t].error = "Could not detect IOC type" => ret[t].status = 400
            /\ ret[t].error = "Failed to upsert indicator" => ret[t].status = 500

CreateFailureStartsNoPass ==
    \A t \in Tasks : CreateFails(t) => enrich'[t] = enrich[t]

\* C25: on POST /api/v1/indicators an upsert that fails because the value
\* cannot be classified is answered with 400 and one that fails in the
\* storage layer with 500; in both cases no enrichment task is started.
C25_CreateErrorsAreClassified ==
    []CreateErrorStatus /\ [][CreateFailureStartsNoPass]_vars

(***************************************************************************)
(* Properties of last_seen under concurrent writers.                       *)
(***************************************************************************)
LastSeenStep ==
    /\ \A r \in indicators : \A x \in indicators' :
          x.id = r.id => x.last_seen >= r.last_seen
    /\ \A t \in Tasks :
          (UpsertReturns(t) /\ \E r \in indicators : r.id = ret'[t].indicator.id) =>
              ret'[t].indicator.last_seen = loc[t].now

\* C26: last_seen of an indicator never decreases: across any interleaving
\* of concurrent upsert_indicator merges (each reading its timestamp before
\* its statement executes) and add_sighting calls on the same indicator,
\* every write leaves last_seen >= the value it had before, and a merge sets
\* it to the observation's timestamp.
C26_LastSeenNeverDecreases == [][LastSeenStep]_vars

(***************************************************************************)
(* Properties of tags and source_ids as returned.                          *)
(***************************************************************************)
NoDuplicates(s) == \A i, j \in DOMAIN s : s[i] = s[j] => i = j

\* the rows the calls have returned, and the rows SELECT * returns
ReturnedRows ==
    {ret[t].indicator : t \in {u \in Tasks : ret[u].ok /\ ret[u].handler = "upsert_indicator"}}
    \cup indicators

\* C27: the tags and source_ids of an indicator, as returned by
\* upsert_indicator, get_indicator, get_indicator_by_value and
\* search_indicators, contain no element twice after any sequence of
\* upserts, so upserting the same request again changes neither.
C27_TagsAndSourcesAreSets ==
    \A r \in ReturnedRows : NoDuplicates(r.tags) /\ NoDuplicates(r.source_ids)

(***************************************************************************)
(* Properties of the registry built by main.                               *)
(***************************************************************************)
RegistryHasWhois == serving => "whois" \in Range(providers)

DomainPassInvokesWhois ==
    \A f \in ReturnedFrames :
        f.indicator.ioc_type = "domain" => "whois" \in Range(f.invoked)

RegistryFrozen == serving => providers' = providers

\* C28: the registry built at startup contains the WHOIS provider, so an
\* enrichment pass over a Domain indicator invokes WHOIS and yields a whois
\* tuple whenever WHOIS returns data; the registry is not changed after
\* startup.
C28_WhoisIsRegistered ==
    []RegistryHasWhois /\ []DomainPassInvokesWhois /\ [][RegistryFrozen]_vars

(***************************************************************************)
(* api/mod.rs: refresh_feeds, and the collectors.                          *)
(***************************************************************************)
\* AlienVaultCollector::is_configured is !api_key.is_empty(); the other two
\* collectors keep the trait's default or return true
MayBeUnconfigured == {"alienvault_otx"}

\* any choice of enabled sources and of the OTX key
InitFeeds ==
    /\ now = 0
    /\ indicators = {}
    /\ sightings = {}
    /\ enrichments = {}
    /\ nextId = 1
    /\ pc = [t \in Tasks |-> "idle"]
    /\ loc = [t \in Tasks |-> NoLocals]
    /\ ret = [t \in Tasks |-> NoReturn]
    /\ calls = 0
    /\ enrich = [t \in Tasks |-> NoFrame]
    /\ hist = << >>
    /\ bulk = [t \in Tasks |-> NoBulk]
    /\ providers = <<>>
    /\ serving = TRUE
    /\ \E on \in SUBSET Collectors, keyed \in SUBSET MayBeUnconfigured :
          feeds = [c \in Collectors |->
                      [NoFeed EXCEPT
                          !.enabled = c \in on,
                          !.configured = c \notin MayBeUnconfigured \/ c \in keyed]]

\* lines 355-362: the handler answers the message and does nothing else
RefreshFeeds(t) ==
    /\ serving
    /\ pc[t] = "idle"
    /\ calls < MaxCalls
    /\ calls' = calls + 1
    /\ Finish(t, [NoReturn EXCEPT !.handler = "refresh_feeds", !.ok = TRUE,
                                  !.status = 200, !.call = calls + 1])
    /\ UNCHANGED <<feeds, bulk, now, enrich, indicators, sightings, enrichments,
                   nextId, providers, serving, hist>>

NextFeeds ==
    \/ Tick
    \/ \E t \in Tasks : RefreshFeeds(t)

SpecFeeds == InitFeeds /\ [][NextFeeds]_vars

\* the handlers run to completion and the clock goes on
SpecFeedsLive == SpecFeeds /\ WF_vars(NextFeeds)

Refreshed == \E t \in Tasks : ret[t].handler = "refresh_feeds" /\ ret[t].ok

DueCollectors == {c \in Collectors : feeds[c].enabled /\ feeds[c].configured}

AllDueFetched ==
    \A c \in DueCollectors : feeds[c].fetches > 0 /\ feeds[c].last_fetch # None

UnconfiguredNeverFetched ==
    \A c \in Collectors : ~feeds[c].configured => feeds[c].fetches = 0

\* C29: after POST /api/v1/feeds/refresh every enabled and configured
\* collector is eventually fetched and its source's last_fetch is updated; a
\* collector that is not configured is never fetched.
C29_RefreshFetchesEveryCollector ==
    (Refreshed ~> AllDueFetched) /\ []UnconfiguredNeverFetched

(***************************************************************************)
(* storage/mod.rs: upsert_indicator with empty and blank values.           *)
(***************************************************************************)
BlankCalls ==
    { [req |-> [NoRequest EXCEPT !.value = <<>>], source_id |-> None],
      [req |-> [NoRequest EXCEPT !.value = <<" ", " ">>], source_id |-> None],
      [req |-> [NoRequest EXCEPT !.value = <<>>, !.ioc_type = Some("domain")],
       source_id |-> None],
      [req |-> [NoRequest EXCEPT !.value = <<" ">>, !.ioc_type = Some("hash")],
       source_id |-> Some("s1")],
      [req |-> [NoRequest EXCEPT !.value = V_DomainPadded], source_id |-> None] }

BlankUpsertBegin(t) ==
    /\ serving
    /\ pc[t] = "idle"
    /\ calls < MaxCalls
    /\ calls' = calls + 1
    /\ \E c \in BlankCalls :
          upsert_indicator_begin(t, "upsert_indicator", c.req, c.source_id)
    /\ UNCHANGED <<feeds, bulk, now, enrich, indicators, sightings, enrichments,
                   nextId, providers, serving, hist>>

NextBlank ==
    \/ Tick
    \/ \E t \in Tasks : BlankUpsertBegin(t)
    \/ \E t \in Tasks : UpsertExec(t)
    \/ \E t \in Tasks : UpsertFail(t)

SpecBlank == Init /\ [][NextBlank]_vars

\* #[validate(length(min = 1, max = 2048))]
StoredValuesHaveLength == \A r \in indicators : Len(r.value) \in 1..2048

\* an upsert_indicator call of a blank value returns in this step
BlankUpsertReturns(t) ==
    /\ pc'[t] = "idle"
    /\ ret'[t].handler = "upsert_indicator"
    /\ trim(ret'[t].req.value) = <<>>
    /\ \/ pc[t] = "upsert_stmt"
       \/ pc[t] = "idle" /\ calls' = calls + 1 /\ ret'[t] # ret[t]

BlankUpsertStep ==
    \A t \in Tasks :
        BlankUpsertReturns(t) => ~ret'[t].ok /\ indicators' = indicators

\* C30: no indicator with an empty value is ever stored: upsert_indicator
\* with a value that is empty or only whitespace returns an error and leaves
\* the store unchanged, with or without an explicit ioc_type, and every
\* stored value has between 1 and 2048 characters.
C30_NoEmptyValueStored == []StoredValuesHaveLength /\ [][BlankUpsertStep]_vars

====
